---- MODULE Spec2Model ----
(***************************************************************************)
(* DigitalTwin metamodel parser (DigitalTwinMetaModelGraph.ts, kept in     *)
(* src/unnamed/part_001) and the diagnostics that query it                 *)
(* (DigitalTwinDiagnostic.ts, src/unnamed/part_002).                       *)
(*                                                                         *)
(* A JavaScript string is the sequence of its UTF-16 code units, so that   *)
(* concatenation, prefix tests, substr, split and the default sort order   *)
(* are computed as the engine computes them.  An array that is stored in a *)
(* cache is a record [ref, val]: ref is the identity of the array object,  *)
(* val its elements.                                                       *)
(***************************************************************************)
EXTENDS Integers, Sequences, FiniteSets, TLC

(***************************************************************************)
(* JavaScript values that are not strings.                                 *)
(***************************************************************************)
Null == <<-1>>
Undefined == <<-2>>

(***************************************************************************)
(* const LANGUAGE_CODES = [...]  (part_001 lines 4-244), entry by entry.   *)
(***************************************************************************)
LANGUAGE_CODES ==
    <<
    <<97, 102>>,  \* 'af'
    <<97, 102, 45, 90, 65>>,  \* 'af-ZA'
    <<97, 114>>,  \* 'ar'
    <<97, 114, 45, 65, 69>>,  \* 'ar-AE'
    <<97, 114, 45, 66, 72>>,  \* 'ar-BH'
    <<97, 114, 45, 68, 90>>,  \* 'ar-DZ'
    <<97, 114, 45, 69, 71>>,  \* 'ar-EG'
    <<97, 114, 45, 73, 81>>,  \* 'ar-IQ'
    <<97, 114, 45, 74, 79>>,  \* 'ar-JO'
    <<97, 114, 45, 75, 87>>,  \* 'ar-KW'
    <<97, 114, 45, 76, 66>>,  \* 'ar-LB'
    <<97, 114, 45, 76, 89>>,  \* 'ar-LY'
    <<97, 114, 45, 77, 65>>,  \* 'ar-MA'
    <<97, 114, 45, 79, 77>>,  \* 'ar-OM'
    <<97, 114, 45, 81, 65>>,  \* 'ar-QA'
    <<97, 114, 45, 83, 65>>,  \* 'ar-SA'
    <<97, 114, 45, 83, 89>>,  \* 'ar-SY'
    <<97, 114, 45, 84, 78>>,  \* 'ar-TN'
    <<97, 114, 45, 89, 69>>,  \* 'ar-YE'
    <<97, 122>>,  \* 'az'
    <<97, 122, 45, 65, 90>>,  \* 'az-AZ'
    <<97, 122, 45, 65, 90>>,  \* 'az-AZ'
    <<98, 101>>,  \* 'be'
    <<98, 101, 45, 66, 89>>,  \* 'be-BY'
    <<98, 103>>,  \* 'bg'
    <<98, 103, 45, 66, 71>>,  \* 'bg-BG'
    <<98, 115, 45, 66, 65>>,  \* 'bs-BA'
    <<99, 97>>,  \* 'ca'
    <<99, 97, 45, 69, 83>>,  \* 'ca-ES'
    <<99, 115>>,  \* 'cs'
    <<99, 115, 45, 67, 90>>,  \* 'cs-CZ'
    <<99, 121>>,  \* 'cy'
    <<99, 121, 45, 71, 66>>,  \* 'cy-GB'
    <<100, 97>>,  \* 'da'
    <<100, 97, 45, 68, 75>>,  \* 'da-DK'
    <<100, 101>>,  \* 'de'
    <<100, 101, 45, 65, 84>>,  \* 'de-AT'
    <<100, 101, 45, 67, 72>>,  \* 'de-CH'
    <<100, 101, 45, 68, 69>>,  \* 'de-DE'
    <<100, 101, 45, 76, 73>>,  \* 'de-LI'
    <<100, 101, 45, 76, 85>>,  \* 'de-LU'
    <<100, 118>>,  \* 'dv'
    <<100, 118, 45, 77, 86>>,  \* 'dv-MV'
    <<101, 108>>,  \* 'el'
    <<101, 108, 45, 71, 82>>,  \* 'el-GR'
    <<101, 110>>,  \* 'en'
    <<101, 110, 45, 65, 85>>,  \* 'en-AU'
    <<101, 110, 45, 66, 90>>,  \* 'en-BZ'
    <<101, 110, 45, 67, 65>>,  \* 'en-CA'
    <<101, 110, 45, 67, 66>>,  \* 'en-CB'
    <<101, 110, 45, 71, 66>>,  \* 'en-GB'
    <<101, 110, 45, 73, 69>>,  \* 'en-IE'
    <<101, 110, 45, 74, 77>>,  \* 'en-JM'
    <<101, 110, 45, 78, 90>>,  \* 'en-NZ'
    <<101, 110, 45, 80, 72>>,  \* 'en-PH'
    <<101, 110, 45, 84, 84>>,  \* 'en-TT'
    <<101, 110, 45, 85, 83>>,  \* 'en-US'
    <<101, 110, 45, 90, 65>>,  \* 'en-ZA'
    <<101, 110, 45, 90, 87>>,  \* 'en-ZW'
    <<101, 111>>,  \* 'eo'
    <<101, 115>>,  \* 'es'
    <<101, 115, 45, 65, 82>>,  \* 'es-AR'
    <<101, 115, 45, 66, 79>>,  \* 'es-BO'
    <<101, 115, 45, 67, 76>>,  \* 'es-CL'
    <<101, 115, 45, 67, 79>>,  \* 'es-CO'
    <<101, 115, 45, 67, 82>>,  \* 'es-CR'
    <<101, 115, 45, 68, 79>>,  \* 'es-DO'
    <<101, 115, 45, 69, 67>>,  \* 'es-EC'
    <<101, 115, 45, 69, 83>>,  \* 'es-ES'
    <<101, 115, 45, 69, 83>>,  \* 'es-ES'
    <<101, 115, 45, 71, 84>>,  \* 'es-GT'
    <<101, 115, 45, 72, 78>>,  \* 'es-HN'
    <<101, 115, 45, 77, 88>>,  \* 'es-MX'
    <<101, 115, 45, 78, 73>>,  \* 'es-NI'
    <<101, 115, 45, 80, 65>>,  \* 'es-PA'
    <<101, 115, 45, 80, 69>>,  \* 'es-PE'
    <<101, 115, 45, 80, 82>>,  \* 'es-PR'
    <<101, 115, 45, 80, 89>>,  \* 'es-PY'
    <<101, 115, 45, 83, 86>>,  \* 'es-SV'
    <<101, 115, 45, 85, 89>>,  \* 'es-UY'
    <<101, 115, 45, 86, 69>>,  \* 'es-VE'
    <<101, 116>>,  \* 'et'
    <<101, 116, 45, 69, 69>>,  \* 'et-EE'
    <<101, 117>>,  \* 'eu'
    <<101, 117, 45, 69, 83>>,  \* 'eu-ES'
    <<102, 97>>,  \* 'fa'
    <<102, 97, 45, 73, 82>>,  \* 'fa-IR'
    <<102, 105>>,  \* 'fi'
    <<102, 105, 45, 70, 73>>,  \* 'fi-FI'
    <<102, 111>>,  \* 'fo'
    <<102, 111, 45, 70, 79>>,  \* 'fo-FO'
    <<102, 114>>,  \* 'fr'
    <<102, 114, 45, 66, 69>>,  \* 'fr-BE'
    <<102, 114, 45, 67, 65>>,  \* 'fr-CA'
    <<102, 114, 45, 67, 72>>,  \* 'fr-CH'
    <<102, 114, 45, 70, 82>>,  \* 'fr-FR'
    <<102, 114, 45, 76, 85>>,  \* 'fr-LU'
    <<102, 114, 45, 77, 67>>,  \* 'fr-MC'
    <<103, 108>>,  \* 'gl'
    <<103, 108, 45, 69, 83>>,  \* 'gl-ES'
    <<103, 117>>,  \* 'gu'
    <<103, 117, 45, 73, 78>>,  \* 'gu-IN'
    <<104, 101>>,  \* 'he'
    <<104, 101, 45, 73, 76>>,  \* 'he-IL'
    <<104, 105>>,  \* 'hi'
    <<104, 105, 45, 73, 78>>,  \* 'hi-IN'
    <<104, 114>>,  \* 'hr'
    <<104, 114, 45, 66, 65>>,  \* 'hr-BA'
    <<104, 114, 45, 72, 82>>,  \* 'hr-HR'
    <<104, 117>>,  \* 'hu'
    <<104, 117, 45, 72, 85>>,  \* 'hu-HU'
    <<104, 121>>,  \* 'hy'
    <<104, 121, 45, 65, 77>>,  \* 'hy-AM'
    <<105, 100>>,  \* 'id'
    <<105, 100, 45, 73, 68>>,  \* 'id-ID'
    <<105, 115>>,  \* 'is'
    <<105, 115, 45, 73, 83>>,  \* 'is-IS'
    <<105, 116>>,  \* 'it'
    <<105, 116, 45, 67, 72>>,  \* 'it-CH'
    <<105, 116, 45, 73, 84>>,  \* 'it-IT'
    <<106, 97>>,  \* 'ja'
    <<106, 97, 45, 74, 80>>,  \* 'ja-JP'
    <<107, 97>>,  \* 'ka'
    <<107, 97, 45, 71, 69>>,  \* 'ka-GE'
    <<107, 107>>,  \* 'kk'
    <<107, 107, 45, 75, 90>>,  \* 'kk-KZ'
    <<107, 110>>,  \* 'kn'
    <<107, 110, 45, 73, 78>>,  \* 'kn-IN'
    <<107, 111>>,  \* 'ko'
    <<107, 111, 45, 75, 82>>,  \* 'ko-KR'
    <<107, 111, 107>>,  \* 'kok'
    <<107, 111, 107, 45, 73, 78>>,  \* 'kok-IN'
    <<107, 121>>,  \* 'ky'
    <<107, 121, 45, 75, 71>>,  \* 'ky-KG'
    <<108, 116>>,  \* 'lt'
    <<108, 116, 45, 76, 84>>,  \* 'lt-LT'
    <<108, 118>>,  \* 'lv'
    <<108, 118, 45, 76, 86>>,  \* 'lv-LV'
    <<109, 105>>,  \* 'mi'
    <<109, 105, 45, 78, 90>>,  \* 'mi-NZ'
    <<109, 107>>,  \* 'mk'
    <<109, 107, 45, 77, 75>>,  \* 'mk-MK'
    <<109, 110>>,  \* 'mn'
    <<109, 110, 45, 77, 78>>,  \* 'mn-MN'
    <<109, 114>>,  \* 'mr'
    <<109, 114, 45, 73, 78>>,  \* 'mr-IN'
    <<109, 115>>,  \* 'ms'
    <<109, 115, 45, 66, 78>>,  \* 'ms-BN'
    <<109, 115, 45, 77, 89>>,  \* 'ms-MY'
    <<109, 116>>,  \* 'mt'
    <<109, 116, 45, 77, 84>>,  \* 'mt-MT'
    <<110, 98>>,  \* 'nb'
    <<110, 98, 45, 78, 79>>,  \* 'nb-NO'
    <<110, 108>>,  \* 'nl'
    <<110, 108, 45, 66, 69>>,  \* 'nl-BE'
    <<110, 108, 45, 78, 76>>,  \* 'nl-NL'
    <<110, 110, 45, 78, 79>>,  \* 'nn-NO'
    <<110, 115>>,  \* 'ns'
    <<110, 115, 45, 90, 65>>,  \* 'ns-ZA'
    <<112, 97>>,  \* 'pa'
    <<112, 97, 45, 73, 78>>,  \* 'pa-IN'
    <<112, 108>>,  \* 'pl'
    <<112, 108, 45, 80, 76>>,  \* 'pl-PL'
    <<112, 115>>,  \* 'ps'
    <<112, 115, 45, 65, 82>>,  \* 'ps-AR'
    <<112, 116>>,  \* 'pt'
    <<112, 116, 45, 66, 82>>,  \* 'pt-BR'
    <<112, 116, 45, 80, 84>>,  \* 'pt-PT'
    <<113, 117>>,  \* 'qu'
    <<113, 117, 45, 66, 79>>,  \* 'qu-BO'
    <<113, 117, 45, 69, 67>>,  \* 'qu-EC'
    <<113, 117, 45, 80, 69>>,  \* 'qu-PE'
    <<114, 111>>,  \* 'ro'
    <<114, 111, 45, 82, 79>>,  \* 'ro-RO'
    <<114, 117>>,  \* 'ru'
    <<114, 117, 45, 82, 85>>,  \* 'ru-RU'
    <<115, 97>>,  \* 'sa'
    <<115, 97, 45, 73, 78>>,  \* 'sa-IN'
    <<115, 101>>,  \* 'se'
    <<115, 101, 45, 70, 73>>,  \* 'se-FI'
    <<115, 101, 45, 70, 73>>,  \* 'se-FI'
    <<115, 101, 45, 70, 73>>,  \* 'se-FI'
    <<115, 101, 45, 78, 79>>,  \* 'se-NO'
    <<115, 101, 45, 78, 79>>,  \* 'se-NO'
    <<115, 101, 45, 78, 79>>,  \* 'se-NO'
    <<115, 101, 45, 83, 69>>,  \* 'se-SE'
    <<115, 101, 45, 83, 69>>,  \* 'se-SE'
    <<115, 101, 45, 83, 69>>,  \* 'se-SE'
    <<115, 107>>,  \* 'sk'
    <<115, 107, 45, 83, 75>>,  \* 'sk-SK'
    <<115, 108>>,  \* 'sl'
    <<115, 108, 45, 83, 73>>,  \* 'sl-SI'
    <<115, 113>>,  \* 'sq'
    <<115, 113, 45, 65, 76>>,  \* 'sq-AL'
    <<115, 114, 45, 66, 65>>,  \* 'sr-BA'
    <<115, 114, 45, 66, 65>>,  \* 'sr-BA'
    <<115, 114, 45, 83, 80>>,  \* 'sr-SP'
    <<115, 114, 45, 83, 80>>,  \* 'sr-SP'
    <<115, 118>>,  \* 'sv'
    <<115, 118, 45, 70, 73>>,  \* 'sv-FI'
    <<115, 118, 45, 83, 69>>,  \* 'sv-SE'
    <<115, 119>>,  \* 'sw'
    <<115, 119, 45, 75, 69>>,  \* 'sw-KE'
    <<115, 121, 114>>,  \* 'syr'
    <<115, 121, 114, 45, 83, 89>>,  \* 'syr-SY'
    <<116, 97>>,  \* 'ta'
    <<116, 97, 45, 73, 78>>,  \* 'ta-IN'
    <<116, 101>>,  \* 'te'
    <<116, 101, 45, 73, 78>>,  \* 'te-IN'
    <<116, 104>>,  \* 'th'
    <<116, 104, 45, 84, 72>>,  \* 'th-TH'
    <<116, 108>>,  \* 'tl'
    <<116, 108, 45, 80, 72>>,  \* 'tl-PH'
    <<116, 110>>,  \* 'tn'
    <<116, 110, 45, 90, 65>>,  \* 'tn-ZA'
    <<116, 114>>,  \* 'tr'
    <<116, 114, 45, 84, 82>>,  \* 'tr-TR'
    <<116, 116>>,  \* 'tt'
    <<116, 116, 45, 82, 85>>,  \* 'tt-RU'
    <<116, 115>>,  \* 'ts'
    <<117, 107>>,  \* 'uk'
    <<117, 107, 45, 85, 65>>,  \* 'uk-UA'
    <<117, 114>>,  \* 'ur'
    <<117, 114, 45, 80, 75>>,  \* 'ur-PK'
    <<117, 122>>,  \* 'uz'
    <<117, 122, 45, 85, 90>>,  \* 'uz-UZ'
    <<117, 122, 45, 85, 90>>,  \* 'uz-UZ'
    <<118, 105>>,  \* 'vi'
    <<118, 105, 45, 86, 78>>,  \* 'vi-VN'
    <<120, 104>>,  \* 'xh'
    <<120, 104, 45, 90, 65>>,  \* 'xh-ZA'
    <<122, 104>>,  \* 'zh'
    <<122, 104, 45, 67, 78>>,  \* 'zh-CN'
    <<122, 104, 45, 72, 75>>,  \* 'zh-HK'
    <<122, 104, 45, 77, 79>>,  \* 'zh-MO'
    <<122, 104, 45, 83, 71>>,  \* 'zh-SG'
    <<122, 104, 45, 84, 87>>,  \* 'zh-TW'
    <<122, 117>>,  \* 'zu'
    <<122, 117, 45, 90, 65>>  \* 'zu-ZA'
    >>

(***************************************************************************)
(* String primitives of the engine.                                        *)
(***************************************************************************)
\* s.startsWith(p), and s.indexOf(p) === 0
startsWith(s, p) == Len(s) >= Len(p) /\ SubSeq(s, 1, Len(p)) = p

\* s.substr(n): the code units after the first n
substr(s, n) == SubSeq(s, n + 1, Len(s))

\* s.indexOf(c) !== -1 for a one-unit string c
includesUnit(s, c) == \E i \in 1..Len(s) : <<s[i]>> = c

\* s.split(c).pop(): what follows the last occurrence of the unit c
splitPop(s, c) ==
    LET at == {i \in 1..Len(s) : <<s[i]>> = c}
    IN  IF at = {} THEN s
        ELSE SubSeq(s, (CHOOSE i \in at : \A j \in at : j <= i) + 1, Len(s))

\* The order of Array.prototype.sort() without a comparator: strings are
\* compared code unit by code unit, a proper prefix coming first.
strLess(a, b) ==
    \E k \in 1..Len(b) :
        /\ k <= Len(a) + 1
        /\ \A j \in 1..(k - 1) : a[j] = b[j]
        /\ (k = Len(a) + 1 \/ a[k] < b[k])

\* array.indexOf(x) !== -1
includes(array, x) == \E i \in 1..Len(array) : array[i] = x

\* lodash uniq: the first occurrence of every element, in order
uniqOf(array) ==
    LET first(i) == \A j \in 1..(i - 1) : array[j] # array[i]
        place(i) == Cardinality({j \in 1..i : first(j)})
    IN  [k \in 1..Cardinality({i \in 1..Len(array) : first(i)}) |->
            array[CHOOSE i \in 1..Len(array) : first(i) /\ place(i) = k]]

\* The elements of array in ascending order; equal elements keep their order.
sortOf(array) ==
    LET before(j, i) == strLess(array[j], array[i]) \/ (array[j] = array[i] /\ j < i)
        place(i) == Cardinality({j \in 1..Len(array) : before(j, i)}) + 1
    IN  [k \in 1..Len(array) |-> array[CHOOSE i \in 1..Len(array) : place(i) = k]]

\* uniq(LANGUAGE_CODES) and uniq(LANGUAGE_CODES).sort(), the same computation
\* laid out in tables that are evaluated once.
LanguageCodesFirst ==
    [i \in 1..Len(LANGUAGE_CODES) |->
        \A j \in 1..(i - 1) : LANGUAGE_CODES[j] # LANGUAGE_CODES[i]]
LanguageCodesPlace ==
    [i \in 1..Len(LANGUAGE_CODES) |-> Cardinality({j \in 1..i : LanguageCodesFirst[j]})]
UniqLanguageCodes ==
    [k \in 1..LanguageCodesPlace[Len(LANGUAGE_CODES)] |->
        LANGUAGE_CODES[CHOOSE i \in 1..Len(LANGUAGE_CODES) :
                          LanguageCodesFirst[i] /\ LanguageCodesPlace[i] = k]]
UniqLanguageCodesPlace ==
    [i \in 1..Len(UniqLanguageCodes) |->
        Cardinality({j \in 1..Len(UniqLanguageCodes) :
                        strLess(UniqLanguageCodes[j], UniqLanguageCodes[i])}) + 1]
SortedUniqLanguageCodes ==
    [k \in 1..Len(UniqLanguageCodes) |->
        UniqLanguageCodes[CHOOSE i \in 1..Len(UniqLanguageCodes) :
                             UniqLanguageCodesPlace[i] = k]]

uniq(array) ==
    IF array = LANGUAGE_CODES THEN UniqLanguageCodes ELSE uniqOf(array)

\* array.sort(): the elements of the array after it has sorted itself
sort(array) ==
    IF array = UniqLanguageCodes THEN SortedUniqLanguageCodes ELSE sortOf(array)

(***************************************************************************)
(* Program constants of DigitalTwinMetaModelGraph.ts.                      *)
(***************************************************************************)
\* static LABEL (lines 267-274)
LABEL ==
    [DOMAIN_  |-> "http://www.w3.org/2000/01/rdf-schema#domain",
     LABEL    |-> "http://www.w3.org/2000/01/rdf-schema#label",
     SUBCLASS |-> "http://www.w3.org/2000/01/rdf-schema#subClassOf",
     RANGE    |-> "http://www.w3.org/2000/01/rdf-schema#range",
     TYPE     |-> "http://www.w3.org/1999/02/22-rdf-syntax-ns#type",
     COMMENT  |-> "http://www.w3.org/2000/01/rdf-schema#comment"]

\* /^@/ (lines 665, 701) and '/' (lines 572, 684)
AT == <<64>> (* '@' *)
SLASH == <<47>> (* '/' *)
\* 'http://www.w3.org' (line 682)
W3_ORG == <<104, 116, 116, 112, 58, 47, 47, 119, 119, 119, 46, 119, 51, 46, 111, 114, 103>> (* 'http://www.w3.org' *)
\* '@language' (line 710)
AT_LANGUAGE == <<64, 108, 97, 110, 103, 117, 97, 103, 101>> (* '@language' *)
\* '@vocab' (lines 316, 372, 533, 686)
AT_VOCAB == <<64, 118, 111, 99, 97, 98>> (* '@vocab' *)

\* isArrayFromShortName (lines 581-587)
isArrayFromShortName(shortName) ==
    includes(<<<<99, 111, 110, 116, 101, 110, 116, 115>> (* 'contents' *), <<115, 99, 104, 101, 109, 97, 115>> (* 'schemas' *), <<102, 105, 101, 108, 100, 115>> (* 'fields' *),
               <<101, 110, 117, 109, 86, 97, 108, 117, 101, 115>> (* 'enumValues' *), <<105, 109, 112, 108, 101, 109, 101, 110, 116, 115>> (* 'implements' *)>>, shortName)

\* getRequiredPropertiesFromType with the case of 'Interface' alone and
\* ['@type'] as the default of the switch
getRequiredPropertiesFromTypeByDefault(type) ==
    CASE type = <<73, 110, 116, 101, 114, 102, 97, 99, 101>> (* 'Interface' *) -> <<<<64, 105, 100>> (* '@id' *), <<64, 116, 121, 112, 101>> (* '@type' *), <<64, 99, 111, 110, 116, 101, 120, 116>> (* '@context' *)>>
      [] OTHER -> <<<<64, 116, 121, 112, 101>> (* '@type' *)>>

\* getRequiredPropertiesFromType (lines 788-834)
getRequiredPropertiesFromType(type) ==
    CASE type = <<73, 110, 116, 101, 114, 102, 97, 99, 101>> (* 'Interface' *) -> <<<<64, 105, 100>> (* '@id' *), <<64, 116, 121, 112, 101>> (* '@type' *), <<64, 99, 111, 110, 116, 101, 120, 116>> (* '@context' *)>>
      [] type = <<84, 101, 108, 101, 109, 101, 116, 114, 121>> (* 'Telemetry' *) -> <<<<64, 116, 121, 112, 101>> (* '@type' *), <<110, 97, 109, 101>> (* 'name' *), <<115, 99, 104, 101, 109, 97>> (* 'schema' *)>>
      [] type = <<80, 114, 111, 112, 101, 114, 116, 121>> (* 'Property' *) -> <<<<64, 116, 121, 112, 101>> (* '@type' *), <<110, 97, 109, 101>> (* 'name' *), <<115, 99, 104, 101, 109, 97>> (* 'schema' *)>>
      [] type = <<67, 111, 109, 109, 97, 110, 100>> (* 'Command' *) -> <<<<64, 116, 121, 112, 101>> (* '@type' *), <<110, 97, 109, 101>> (* 'name' *)>>
      [] type = <<65, 114, 114, 97, 121>> (* 'Array' *) -> <<<<64, 116, 121, 112, 101>> (* '@type' *), <<101, 108, 101, 109, 101, 110, 116, 83, 99, 104, 101, 109, 97>> (* 'elementSchema' *)>>
      [] type = <<69, 110, 117, 109>> (* 'Enum' *) -> <<<<64, 116, 121, 112, 101>> (* '@type' *), <<101, 110, 117, 109, 86, 97, 108, 117, 101, 115>> (* 'enumValues' *)>>
      [] type = <<69, 110, 117, 109, 86, 97, 108, 117, 101>> (* 'EnumValue' *) -> <<<<110, 97, 109, 101>> (* 'name' *)>>
      [] type = <<77, 97, 112>> (* 'Map' *) -> <<<<64, 116, 121, 112, 101>> (* '@type' *), <<109, 97, 112, 75, 101, 121>> (* 'mapKey' *), <<109, 97, 112, 86, 97, 108, 117, 101>> (* 'mapValue' *)>>
      [] type = <<77, 97, 112, 75, 101, 121>> (* 'MapKey' *) -> <<<<110, 97, 109, 101>> (* 'name' *), <<115, 99, 104, 101, 109, 97>> (* 'schema' *)>>
      [] type = <<77, 97, 112, 86, 97, 108, 117, 101>> (* 'MapValue' *) -> <<<<110, 97, 109, 101>> (* 'name' *), <<115, 99, 104, 101, 109, 97>> (* 'schema' *)>>
      [] type = <<79, 98, 106, 101, 99, 116>> (* 'Object' *) -> <<<<64, 116, 121, 112, 101>> (* '@type' *), <<102, 105, 101, 108, 100, 115>> (* 'fields' *)>>
      [] type = <<83, 99, 104, 101, 109, 97, 70, 105, 101, 108, 100>> (* 'SchemaField' *) -> <<<<110, 97, 109, 101>> (* 'name' *), <<115, 99, 104, 101, 109, 97>> (* 'schema' *)>>
      [] type \in {<<66, 111, 111, 108, 101, 97, 110>> (* 'Boolean' *), <<66, 121, 116, 101, 115>> (* 'Bytes' *), <<68, 97, 116, 101>> (* 'Date' *),
                   <<68, 97, 116, 101, 84, 105, 109, 101>> (* 'DateTime' *), <<68, 117, 114, 97, 116, 105, 111, 110>> (* 'Duration' *), <<70, 108, 111, 97, 116>> (* 'Float' *),
                   <<73, 110, 116, 101, 103, 101, 114>> (* 'Integer' *), <<76, 111, 110, 103>> (* 'Long' *), <<83, 116, 114, 105, 110, 103>> (* 'String' *),
                   <<84, 105, 109, 101>> (* 'Time' *)} -> <<<<64, 116, 121, 112, 101>> (* '@type' *)>>
      [] type = <<67, 97, 112, 97, 98, 105, 108, 105, 116, 121, 77, 111, 100, 101, 108>> (* 'CapabilityModel' *) ->
             <<<<64, 105, 100>> (* '@id' *), <<64, 116, 121, 112, 101>> (* '@type' *), <<64, 99, 111, 110, 116, 101, 120, 116>> (* '@context' *), <<105, 109, 112, 108, 101, 109, 101, 110, 116, 115>> (* 'implements' *)>>
      [] type = <<73, 110, 116, 101, 114, 102, 97, 99, 101, 73, 110, 115, 116, 97, 110, 99, 101>> (* 'InterfaceInstance' *) -> <<<<110, 97, 109, 101>> (* 'name' *), <<115, 99, 104, 101, 109, 97>> (* 'schema' *)>>
      [] OTHER -> <<>>

\* the switch of getValueTypesFromId (lines 731-753): the primitive type a
\* raw value names, or Undefined for a value that is dropped
valueTypeOf(value) ==
    CASE value = <<88, 77, 76, 83, 99, 104, 101, 109, 97, 35, 98, 111, 111, 108, 101, 97, 110>> (* 'XMLSchema#boolean' *) -> <<98, 111, 111, 108, 101, 97, 110>> (* 'boolean' *)
      [] value = <<88, 77, 76, 83, 99, 104, 101, 109, 97, 35, 105, 110, 116>> (* 'XMLSchema#int' *) -> <<105, 110, 116>> (* 'int' *)
      [] value = <<88, 77, 76, 83, 99, 104, 101, 109, 97, 35, 108, 111, 110, 103>> (* 'XMLSchema#long' *) -> <<108, 111, 110, 103>> (* 'long' *)
      [] value = <<88, 77, 76, 83, 99, 104, 101, 109, 97, 35, 102, 108, 111, 97, 116>> (* 'XMLSchema#float' *) -> <<102, 108, 111, 97, 116>> (* 'float' *)
      [] value = <<88, 77, 76, 83, 99, 104, 101, 109, 97, 35, 100, 111, 117, 98, 108, 101>> (* 'XMLSchema#double' *) -> <<100, 111, 117, 98, 108, 101>> (* 'double' *)
      [] value = <<88, 77, 76, 83, 99, 104, 101, 109, 97, 35, 115, 116, 114, 105, 110, 103>> (* 'XMLSchema#string' *) -> <<115, 116, 114, 105, 110, 103>> (* 'string' *)
      [] OTHER -> Undefined

(***************************************************************************)
(* DigitalTwinMetaModelContext: the '@context' object as the sequence of   *)
(* its own keys in Object.keys order, '@vocab' included.  An item is a     *)
(* string (text), or an object with '@id' (text) and '@container'.         *)
(***************************************************************************)
stringItem(key, text) ==
    [key |-> key, item |-> [string |-> TRUE, text |-> text, container |-> Undefined]]
objectItem(key, id, container) ==
    [key |-> key, item |-> [string |-> FALSE, text |-> id, container |-> container]]

\* dtContext['@context'][key], Undefined for a missing key
contextItem(dtContext, key) ==
    LET at == {i \in 1..Len(dtContext) : dtContext[i].key = key}
    IN  IF at = {} THEN Undefined ELSE dtContext[CHOOSE i \in at : TRUE].item

\* dtContext['@context'].hasOwnProperty(key)
hasOwnProperty(dtContext, key) == \E i \in 1..Len(dtContext) : dtContext[i].key = key

\* dtContext['@context']['@vocab']
vocabOf(dtContext) == contextItem(dtContext, AT_VOCAB).text

\* The first index of a sequence at which a test holds, 0 when there is none:
\* the iteration at which a for-of loop returns.
firstIndex(indices) ==
    IF indices = {} THEN 0 ELSE CHOOSE i \in indices : \A j \in indices : i <= j

(***************************************************************************)
(***************************************************************************)
(* DigitalTwinMetaModelParser.  Every operation takes the parser and the   *)
(* module's LANGUAGE_CODES array as they are (st: graph, cache,            *)
(* LANGUAGE_CODES) and yields them as it leaves them, with the value       *)
(* returned (ret) or the fact that a RangeError was thrown (err), which    *)
(* the engine does when the call stack holds more than StackLimit frames   *)
(* of the recursive operations.  A loop is the iteration of its body over  *)
(* what the iterations before it have yielded.                             *)
(***************************************************************************)
StackLimit == 6

\* cache = { IdFromLabel: {}, ... } (lines 278-290)
EmptyCache ==
    [IdFromLabel |-> <<>>, PropertyNameFromId |-> <<>>, TypesFromId |-> <<>>,
     ValueTypesFromId |-> <<>>, StringValuesFromId |-> <<>>,
     PropertiesFromId |-> <<>>, CommnetFromId |-> <<>>,
     TypedPropertiesFromId |-> <<>>, ShortNameFromLabel |-> <<>>]

Return(st, value) == [st |-> st, ret |-> value, err |-> FALSE]
Throw(st) == [st |-> st, ret |-> Undefined, err |-> TRUE]

\* An array object created for `id`: a new object, other than every object
\* created before.  The table names the cache that is to hold it ("" when
\* it is returned without being cached).
newArray(st, table, id, val) ==
    [ref |-> <<table, id,
               IF table # "" /\ id \in DOMAIN st.cache[table]
               THEN st.cache[table][id].ref[3] + 1 ELSE 0>>,
     val |-> val]

\* this.cache[table][key] = value
cached(st, table, key, value) ==
    [st EXCEPT !.cache[table] = (key :> value) @@ st.cache[table]]

\* this.cache[table][key] = value; return value
cachedReturn(st, table, key, value) == Return(cached(st, table, key, value), value)

\* array.push(call(...)) and array = array.concat(call(...)), the call
\* having ended as `called`
push(array, called) ==
    IF called.err THEN called ELSE Return(called.st, Append(array, called.ret))

concat(array, called) ==
    IF called.err THEN called ELSE Return(called.st, array \o called.ret.val)

\* The iteration at which the loop of getCommentFromId returns
commentAt(st, id) ==
    firstIndex({i \in 1..Len(st.graph.Edges) :
                   /\ st.graph.Edges[i].SourceNode.Id = id
                   /\ st.graph.Edges[i].Label = LABEL.COMMENT})

\* getCommentFromId (lines 292-307)
getCommentFromId(st, id) ==
    IF id \in DOMAIN st.cache.CommnetFromId
    THEN Return(st, st.cache.CommnetFromId[id])
    ELSE IF commentAt(st, id) # 0
    THEN Return(cached(st, "CommnetFromId", id,
                       IF st.graph.Edges[commentAt(st, id)].TargetNode.Value
                              \in {Undefined, <<>>}
                       THEN <<>>
                       ELSE st.graph.Edges[commentAt(st, id)].TargetNode.Value),
                st.graph.Edges[commentAt(st, id)].TargetNode.Value)
    ELSE Return(cached(st, "CommnetFromId", id, <<>>), Undefined)

\* getIdFromShortName (lines 309-323)
getIdFromShortName(dtContext, shortName) ==
    IF hasOwnProperty(dtContext, shortName)
    THEN vocabOf(dtContext) \o contextItem(dtContext, shortName).text
    ELSE Null

\* getIdFromLabel (lines 325-343)
getIdFromLabel(dtContext, label) == vocabOf(dtContext) \o label

\* getIdFromType (lines 345-365)
getIdFromType(dtContext, type) ==
    IF hasOwnProperty(dtContext, type) /\ contextItem(dtContext, type).text # <<>>
    THEN getIdFromLabel(dtContext, contextItem(dtContext, type).text)
    ELSE getIdFromLabel(dtContext, type)

\* The iteration of `for (const key of Object.keys(dtContext['@context']))`
\* at which the loop returns, 0 when it runs to its end
propertyNameAt(dtContext, id) ==
    firstIndex({i \in 1..Len(dtContext) :
                   vocabOf(dtContext) \o dtContext[i].item.text = id})

\* getPropertyNameFromId (lines 367-384)
getPropertyNameFromId(st, dtContext, id) ==
    IF id \in DOMAIN st.cache.PropertyNameFromId /\ st.cache.PropertyNameFromId[id] # <<>>
    THEN Return(st, st.cache.PropertyNameFromId[id])
    ELSE IF propertyNameAt(dtContext, id) # 0
    THEN cachedReturn(st, "PropertyNameFromId", id,
                      dtContext[propertyNameAt(dtContext, id)].key)
    ELSE Return(st, id)

\* The iteration at which the loop of getShortNameFromId returns
shortNameAt(dtContext, id) ==
    firstIndex({i \in 1..Len(dtContext) :
                   /\ ~startsWith(dtContext[i].key, AT)
                   /\ vocabOf(dtContext) \o dtContext[i].item.text = id})

\* getShortNameFromId (lines 663-694)
getShortNameFromId(dtContext, id) ==
    IF shortNameAt(dtContext, id) # 0 THEN dtContext[shortNameAt(dtContext, id)].key
    ELSE IF startsWith(id, W3_ORG) THEN splitPop(id, SLASH)
    ELSE IF startsWith(id, vocabOf(dtContext)) THEN substr(id, Len(vocabOf(dtContext)))
    ELSE id

\* The iteration at which the loop of isInternationalizationFromId returns
internationalizationAt(dtContext, id) ==
    firstIndex({i \in 1..Len(dtContext) :
                   /\ ~startsWith(dtContext[i].key, AT)
                   /\ ~dtContext[i].item.string
                   /\ vocabOf(dtContext) \o dtContext[i].item.text = id})

\* isInternationalizationFromId (lines 696-719)
isInternationalizationFromId(dtContext, id) ==
    /\ internationalizationAt(dtContext, id) # 0
    /\ dtContext[internationalizationAt(dtContext, id)].item.container = AT_LANGUAGE

\* getLabelFromId (lines 531-549)
getLabelFromId(dtContext, id) ==
    IF startsWith(id, vocabOf(dtContext)) /\ substr(id, Len(vocabOf(dtContext))) # <<>>
    THEN substr(id, Len(vocabOf(dtContext)))
    ELSE id

\* The iteration at which the loop of getShortNameFromLabel returns
labelAt(dtContext, label) ==
    firstIndex({i \in 1..Len(dtContext) : dtContext[i].item.text = label})

\* getShortNameFromLabel (lines 551-579)
getShortNameFromLabel(st, dtContext, label) ==
    IF label \in DOMAIN st.cache.ShortNameFromLabel
    THEN Return(st, st.cache.ShortNameFromLabel[label])
    ELSE IF labelAt(dtContext, label) # 0
    THEN cachedReturn(st, "ShortNameFromLabel", label,
                      dtContext[labelAt(dtContext, label)].key)
    ELSE IF ~includesUnit(label, SLASH)
    THEN cachedReturn(st, "ShortNameFromLabel", label, label)
    ELSE cachedReturn(st, "ShortNameFromLabel", label, Null)

RECURSIVE getPropertiesFromId(_, _, _, _)
RECURSIVE propertiesOfEdges(_, _, _, _, _)

\* propertiesOfEdge without the second test: the properties of the
\* superclass are not collected
propertiesOfEdgeOwn(before, dtContext, id, depth, edge) ==
    IF edge.TargetNode.Id = id /\ edge.Label = LABEL.DOMAIN_
    THEN push(before.ret, getPropertyNameFromId(before.st, dtContext, edge.SourceNode.Id))
    ELSE before

\* The body of the loop of getPropertiesFromId (lines 457-473) for one edge,
\* the iterations before it having yielded `before`
propertiesOfEdge(before, dtContext, id, depth, edge) ==
    IF edge.TargetNode.Id = id /\ edge.Label = LABEL.DOMAIN_
    THEN push(before.ret, getPropertyNameFromId(before.st, dtContext, edge.SourceNode.Id))
    ELSE IF edge.SourceNode.Id = id /\ edge.Label = LABEL.SUBCLASS
    THEN concat(before.ret,
                getPropertiesFromId(before.st, dtContext, edge.TargetNode.Id, depth + 1))
    ELSE before

\* The first edge from edge i on for which a test of the loop body of
\* getPropertiesFromId holds, 0 if there is none: the body leaves
\* everything as it is for the edges before it
propertiesEdgeFrom(edges, id, i) ==
    firstIndex({j \in i..Len(edges) :
                    \/ edges[j].TargetNode.Id = id /\ edges[j].Label = LABEL.DOMAIN_
                    \/ edges[j].SourceNode.Id = id /\ edges[j].Label = LABEL.SUBCLASS})

\* for (const edge of this.graph.Edges) (lines 456-474), from edge i on
propertiesOfEdges(before, dtContext, id, depth, i) ==
    IF before.err \/ propertiesEdgeFrom(before.st.graph.Edges, id, i) = 0 THEN before
    ELSE propertiesOfEdges(
             propertiesOfEdge(before, dtContext, id, depth,
                              before.st.graph.Edges[
                                  propertiesEdgeFrom(before.st.graph.Edges, id, i)]),
             dtContext, id, depth, propertiesEdgeFrom(before.st.graph.Edges, id, i) + 1)

\* keysOfProperties without the sort: const keys = uniq(properties)
keysOfPropertiesUnsorted(properties, id) ==
    IF properties.err THEN properties
    ELSE cachedReturn(properties.st, "PropertiesFromId", id,
                      newArray(properties.st, "PropertiesFromId", id,
                               uniq(properties.ret)))

\* const keys = uniq(properties).sort(); ... return keys (lines 476-478)
keysOfProperties(properties, id) ==
    IF properties.err THEN properties
    ELSE cachedReturn(properties.st, "PropertiesFromId", id,
                      newArray(properties.st, "PropertiesFromId", id,
                               sort(uniq(properties.ret))))

\* getPropertiesFromId without the test of the cache (lines 447-449)
getPropertiesFromIdAfresh(st, dtContext, id, depth) ==
    IF depth > StackLimit THEN Throw(st)
    ELSE IF isInternationalizationFromId(dtContext, id)
    THEN keysOfProperties(Return(st, st.LANGUAGE_CODES), id)
    ELSE keysOfProperties(propertiesOfEdges(Return(st, <<>>), dtContext, id, depth, 1), id)

\* getPropertiesFromId (lines 446-479)
getPropertiesFromId(st, dtContext, id, depth) ==
    IF depth > StackLimit THEN Throw(st)
    ELSE IF id \in DOMAIN st.cache.PropertiesFromId
    THEN Return(st, st.cache.PropertiesFromId[id])
    ELSE IF isInternationalizationFromId(dtContext, id)
    THEN keysOfProperties(Return(st, st.LANGUAGE_CODES), id)
    ELSE keysOfProperties(propertiesOfEdges(Return(st, <<>>), dtContext, id, depth, 1), id)

RECURSIVE getTypesFromId(_, _, _, _)
RECURSIVE typesOfEdges(_, _, _, _, _)

\* The second test of the loop body of getTypesFromId (lines 507-514)
typesOfSubClass(before, dtContext, id, depth, edge) ==
    IF ~before.err /\ edge.TargetNode.Id = id /\ edge.Label = LABEL.SUBCLASS
    THEN concat(before.ret,
                getTypesFromId(before.st, dtContext, edge.SourceNode.Id, depth + 1))
    ELSE before

\* The first test of the loop body of getTypesFromId (lines 499-506)
typesOfRange(before, dtContext, id, depth, edge) ==
    IF edge.SourceNode.Id = id /\ edge.Label = LABEL.RANGE
    THEN concat(before.ret,
                getTypesFromId(before.st, dtContext, edge.TargetNode.Id, depth + 1))
    ELSE before

\* The first edge from edge i on for which a test of the loop body of
\* getTypesFromId holds, 0 if there is none
typesEdgeFrom(edges, id, i) ==
    firstIndex({j \in i..Len(edges) :
                    \/ edges[j].SourceNode.Id = id /\ edges[j].Label = LABEL.RANGE
                    \/ edges[j].TargetNode.Id = id /\ edges[j].Label = LABEL.SUBCLASS})

\* for (const edge of this.graph.Edges) (lines 498-516), from edge i on
typesOfEdges(before, dtContext, id, depth, i) ==
    IF before.err \/ typesEdgeFrom(before.st.graph.Edges, id, i) = 0 THEN before
    ELSE typesOfEdges(
             typesOfSubClass(
                 typesOfRange(before, dtContext, id, depth,
                              before.st.graph.Edges[
                                  typesEdgeFrom(before.st.graph.Edges, id, i)]),
                 dtContext, id, depth,
                 before.st.graph.Edges[typesEdgeFrom(before.st.graph.Edges, id, i)]),
             dtContext, id, depth, typesEdgeFrom(before.st.graph.Edges, id, i) + 1)

\* if (shortName) types.push(shortName) and what follows (lines 521-528),
\* types being empty and getShortNameFromLabel having ended as `shortName`
typesOfShortName(shortName, id) ==
    cachedReturn(shortName.st, "TypesFromId", id,
                 newArray(shortName.st, "TypesFromId", id,
                          IF shortName.ret \notin {Null, <<>>}
                          THEN sort(uniq(<<shortName.ret>>)) ELSE sort(uniq(<<>>))))

\* typesOfCollected without the fallback (lines 518-524)
typesOfCollectedOnly(types, dtContext, id) ==
    IF types.err THEN types
    ELSE cachedReturn(types.st, "TypesFromId", id,
                      newArray(types.st, "TypesFromId", id, sort(uniq(types.ret))))

\* if (types.length === 0) ... return types (lines 518-528)
typesOfCollected(types, dtContext, id) ==
    IF types.err THEN types
    ELSE IF types.ret = <<>>
    THEN typesOfShortName(getShortNameFromLabel(types.st, dtContext,
                                                getLabelFromId(dtContext, id)), id)
    ELSE cachedReturn(types.st, "TypesFromId", id,
                      newArray(types.st, "TypesFromId", id, sort(uniq(types.ret))))

\* getTypesFromId (lines 492-529)
getTypesFromId(st, dtContext, id, depth) ==
    IF depth > StackLimit THEN Throw(st)
    ELSE IF id \in DOMAIN st.cache.TypesFromId
    THEN Return(st, st.cache.TypesFromId[id])
    ELSE typesOfCollected(typesOfEdges(Return(st, <<>>), dtContext, id, depth, 1),
                          dtContext, id)

RECURSIVE getStringValuesFromId(_, _, _, _)
RECURSIVE stringValuesOfEdges(_, _, _, _, _)

\* hasProperty after the loop of getStringValuesFromId: the first test of
\* its body (lines 612-617) has held for some edge
hasPropertyFromId(st, id) ==
    \E i \in 1..Len(st.graph.Edges) :
        st.graph.Edges[i].TargetNode.Id = id /\ st.graph.Edges[i].Label = LABEL.DOMAIN_

\* The other three tests of the loop body (lines 618-644) for one edge; an
\* edge has one label, so at most one of them holds
stringValuesOfEdge(before, dtContext, id, depth, edge) ==
    IF edge.SourceNode.Id = id /\ edge.Label = LABEL.RANGE
    THEN concat(before.ret,
                getStringValuesFromId(before.st, dtContext, edge.TargetNode.Id, depth + 1))
    ELSE IF edge.TargetNode.Id = id /\ edge.Label \in {LABEL.SUBCLASS, LABEL.TYPE}
    THEN concat(before.ret,
                getStringValuesFromId(before.st, dtContext, edge.SourceNode.Id, depth + 1))
    ELSE before

\* The first edge from edge i on for which one of these three tests holds,
\* 0 if there is none
stringValuesEdgeFrom(edges, id, i) ==
    firstIndex({j \in i..Len(edges) :
                    \/ edges[j].SourceNode.Id = id /\ edges[j].Label = LABEL.RANGE
                    \/ /\ edges[j].TargetNode.Id = id
                       /\ edges[j].Label \in {LABEL.SUBCLASS, LABEL.TYPE}})

\* for (const edge of this.graph.Edges) (lines 611-645), from edge i on
stringValuesOfEdges(before, dtContext, id, depth, i) ==
    IF before.err \/ stringValuesEdgeFrom(before.st.graph.Edges, id, i) = 0 THEN before
    ELSE stringValuesOfEdges(
             stringValuesOfEdge(before, dtContext, id, depth,
                                before.st.graph.Edges[
                                    stringValuesEdgeFrom(before.st.graph.Edges, id, i)]),
             dtContext, id, depth,
             stringValuesEdgeFrom(before.st.graph.Edges, id, i) + 1)

\* if (values.length === 0) ... return values (lines 646-660)
stringValuesOfCollected(values, dtContext, id) ==
    IF values.err THEN values
    ELSE IF values.ret = <<>> /\ hasPropertyFromId(values.st, id)
    THEN \* this is object, ignore it: one [] is cached, another returned
         Return(cached(values.st, "StringValuesFromId", id,
                       newArray(values.st, "StringValuesFromId", id, <<>>)),
                newArray(values.st, "", id, <<>>))
    ELSE IF values.ret = <<>> /\ getShortNameFromId(dtContext, id) # <<>>
    THEN cachedReturn(values.st, "StringValuesFromId", id,
                      newArray(values.st, "StringValuesFromId", id,
                               <<getShortNameFromId(dtContext, id)>>))
    ELSE cachedReturn(values.st, "StringValuesFromId", id,
                      newArray(values.st, "StringValuesFromId", id, values.ret))

\* getStringValuesFromId (lines 605-661)
getStringValuesFromId(st, dtContext, id, depth) ==
    IF depth > StackLimit THEN Throw(st)
    ELSE IF id \in DOMAIN st.cache.StringValuesFromId
    THEN Return(st, st.cache.StringValuesFromId[id])
    ELSE stringValuesOfCollected(
             stringValuesOfEdges(Return(st, <<>>), dtContext, id, depth, 1),
             dtContext, id)

\* getStringValuesFromShortName (lines 589-603)
getStringValuesFromShortName(st, dtContext, shortName, depth) ==
    IF getIdFromShortName(dtContext, shortName)
           = <<104, 116, 116, 112, 58, 47, 47, 97, 122, 117, 114, 101, 105, 111, 116, 46, 99, 111, 109, 47, 118, 49, 47, 99, 108, 97, 115, 115, 101, 115, 47, 73, 110, 116, 101, 114, 102, 97, 99, 101, 73, 110, 115, 116, 97, 110, 99, 101, 47, 115, 99, 104, 101, 109, 97>> (* 'http://azureiot.com/v1/classes/InterfaceInstance/schema' *)
    THEN Return(st, newArray(st, "", shortName, <<<<88, 77, 76, 83, 99, 104, 101, 109, 97, 35, 115, 116, 114, 105, 110, 103>> (* 'XMLSchema#string' *)>>))
    ELSE IF getIdFromShortName(dtContext, shortName) \in {Null, <<>>}
    THEN Return(st, newArray(st, "", <<>>, <<>>))
    ELSE getStringValuesFromId(st, dtContext, getIdFromShortName(dtContext, shortName),
                               depth)

\* values.forEach(...) ... return valueTypes (lines 727-757)
valueTypesOfValues(values, id) ==
    IF values.err THEN values
    ELSE cachedReturn(values.st, "ValueTypesFromId", id,
                      newArray(values.st, "ValueTypesFromId", id,
                               SelectSeq([k \in 1..Len(values.ret.val) |->
                                             valueTypeOf(values.ret.val[k])],
                                         LAMBDA t : t # Undefined)))

\* getValueTypesFromId (lines 721-758)
getValueTypesFromId(st, dtContext, id, depth) ==
    IF id \in {Null, <<>>}
    THEN Return(st, newArray(st, "", <<>>, <<>>))
    ELSE IF id \in DOMAIN st.cache.ValueTypesFromId
    THEN Return(st, st.cache.ValueTypesFromId[id])
    ELSE valueTypesOfValues(getStringValuesFromId(st, dtContext, id, depth), id)

\* results.push(item) (lines 419-427), getValueTypesFromId having ended as
\* `valueTypes`
pushItem(results, key, required, valueTypes) ==
    IF valueTypes.err THEN valueTypes
    ELSE Return(valueTypes.st,
                Append(results,
                       [label |-> key, required |-> required,
                        type |-> IF valueTypes.ret.val = <<>> THEN <<>>
                                 ELSE valueTypes.ret.val[1]]))

\* The body of the loop of getTypedPropertiesFromId (lines 415-427) for one
\* key
typedPropertyOfKey(before, dtContext, getRequiredProperties, depth, key) ==
    IF getIdFromShortName(dtContext, key) \in {Null, <<>>} THEN before
    ELSE IF isArrayFromShortName(key)
    THEN Return(before.st,
                Append(before.ret,
                       [label |-> key, required |-> includes(getRequiredProperties, key),
                        type |-> <<97, 114, 114, 97, 121>> (* 'array' *)]))
    ELSE pushItem(before.ret, key, includes(getRequiredProperties, key),
                  getValueTypesFromId(before.st, dtContext,
                                      getIdFromShortName(dtContext, key), depth))

\* for (const key of keys) (lines 414-428), from key i on
RECURSIVE typedPropertiesOfKeys(_, _, _, _, _, _)
typedPropertiesOfKeys(before, dtContext, keys, getRequiredProperties, depth, i) ==
    IF before.err \/ i > Len(keys) THEN before
    ELSE typedPropertiesOfKeys(typedPropertyOfKey(before, dtContext,
                                                  getRequiredProperties, depth, keys[i]),
                               dtContext, keys, getRequiredProperties, depth, i + 1)

\* this.cache.TypedPropertiesFromId[id] = results; return results (lines
\* 428-429)
resultsOfPushed(results, id) ==
    IF results.err THEN results
    ELSE cachedReturn(results.st, "TypedPropertiesFromId", id,
                      newArray(results.st, "TypedPropertiesFromId", id, results.ret))

\* const type = ... return results (lines 410-429), getPropertiesFromId
\* having ended as `keys`
resultsOfKeys(keys, dtContext, id, depth) ==
    IF keys.err THEN keys
    ELSE resultsOfPushed(
             typedPropertiesOfKeys(
                 Return(keys.st, <<>>), dtContext, keys.ret.val,
                 IF getShortNameFromId(dtContext, id) # <<>>
                 THEN getRequiredPropertiesFromType(getShortNameFromId(dtContext, id))
                 ELSE <<>>,
                 depth, 1),
             id)

\* getTypedPropertiesFromId (lines 386-430)
getTypedPropertiesFromId(st, dtContext, id, depth) ==
    IF id \in DOMAIN st.cache.TypedPropertiesFromId
    THEN Return(st, st.cache.TypedPropertiesFromId[id])
    ELSE IF isInternationalizationFromId(dtContext, id)
    THEN cachedReturn(st, "TypedPropertiesFromId", id,
                      newArray(st, "TypedPropertiesFromId", id,
                               [k \in 1..Len(st.LANGUAGE_CODES) |->
                                   [label |-> st.LANGUAGE_CODES[k], required |-> FALSE,
                                    type |-> <<115, 116, 114, 105, 110, 103>> (* 'string' *)]]))
    ELSE resultsOfKeys(getPropertiesFromId(st, dtContext, id, depth), dtContext, id, depth)

\* getTypedPropertiesFromType (lines 432-444)
getTypedPropertiesFromType(st, dtContext, type, depth) ==
    IF getIdFromType(dtContext, type) \in {Null, <<>>}
    THEN Return(st, newArray(st, "", <<>>, <<>>))
    ELSE getTypedPropertiesFromId(st, dtContext, getIdFromType(dtContext, type), depth)

\* getPropertiesFromType (lines 481-490)
getPropertiesFromType(st, dtContext, type, depth) ==
    IF getIdFromType(dtContext, type) \in {Null, <<>>}
    THEN Return(st, newArray(st, "", <<>>, <<>>))
    ELSE getPropertiesFromId(st, dtContext, getIdFromType(dtContext, type), depth)

(***************************************************************************)
(* DigitalTwinDiagnostic: the queries it puts to the parser.               *)
(***************************************************************************)
\* properties = properties.concat(currentProperties, required) (lines
\* 627-633), getTypedPropertiesFromType having ended as `typed`
concatLabels(properties, typed, required) ==
    IF typed.err THEN typed
    ELSE Return(typed.st,
                properties \o [k \in 1..Len(typed.ret.val) |-> typed.ret.val[k].label]
                    \o required)

\* for (const currentType of type) (lines 626-634), from type i on
RECURSIVE propertiesOfTypes(_, _, _, _)
propertiesOfTypes(before, dtContext, type, i) ==
    IF before.err \/ i > Len(type) THEN before
    ELSE propertiesOfTypes(
             concatLabels(before.ret,
                          getTypedPropertiesFromType(before.st, dtContext, type[i], 1),
                          getRequiredPropertiesFromType(type[i])),
             dtContext, type, i + 1)

\* The issues of the properties at the given indices (lines 653-657)
issuesAt(indices, jsonValue) ==
    [k \in 1..Len(indices) |->
        [startIndex |-> jsonValue.properties[indices[k]].name.span.startIndex,
         endIndex |-> jsonValue.properties[indices[k]].name.span.endIndex,
         message |-> jsonValue.propertyNames[indices[k]] \o <<32, 105, 115, 32, 117, 110, 101, 120, 112, 101, 99, 116, 101, 100, 46>> (* ' is unexpected.' *)]]

\* unexpectedIssues without the tests of lines 648-649: '@type' and '@id'
\* are held against the properties as every other name is
unexpectedIssuesOfKeywords(properties, jsonValue) ==
    IF properties.err THEN properties
    ELSE Return(properties.st,
                issuesAt(SelectSeq([i \in 1..Len(jsonValue.propertyNames) |-> i],
                                   LAMBDA i : ~includes(uniq(properties.ret),
                                                        jsonValue.propertyNames[i])),
                         jsonValue))

\* properties = uniq(properties) ... return issues (lines 643-661).
\* jsonValue is an object value: propertyNames, and for each property the
\* span of its name token.
unexpectedIssues(properties, jsonValue) ==
    IF properties.err THEN properties
    ELSE Return(properties.st,
                issuesAt(SelectSeq([i \in 1..Len(jsonValue.propertyNames) |-> i],
                                   LAMBDA i :
                                       /\ jsonValue.propertyNames[i] # <<64, 116, 121, 112, 101>> (* '@type' *)
                                       /\ jsonValue.propertyNames[i] # <<64, 105, 100>> (* '@id' *)
                                       /\ ~includes(uniq(properties.ret),
                                                    jsonValue.propertyNames[i])),
                         jsonValue))

\* getUnexpectedPropertiesIssues (lines 619-662).  type is an array of type
\* names (a single name is an array of one: both branches collect the same
\* properties).
getUnexpectedPropertiesIssues(st, dtContext, jsonValue, type) ==
    unexpectedIssues(propertiesOfTypes(Return(st, <<>>), dtContext, type, 1), jsonValue)

(***************************************************************************)
(* JSON: the document's text parsed into a tree of values, each with the   *)
(* span of its text (the offsets of its first and of its last code unit),  *)
(* and each property with the span of its name token.  A value is          *)
(* [valueKind, span, text, properties, elements, propertyNames]: text is   *)
(* what toFriendlyString gives (the characters of a string between its     *)
(* quotes, the literal of a number), properties those of an object in      *)
(* order, elements those of an array.                                      *)
(***************************************************************************)
Span(startIndex, endIndex) == [startIndex |-> startIndex, endIndex |-> endIndex]

JsonValue(valueKind, span, text, properties, elements) ==
    [valueKind |-> valueKind, span |-> span, text |-> text,
     properties |-> properties, elements |-> elements,
     propertyNames |-> [k \in 1..Len(properties) |-> properties[k].name.text]]

\* The outcome of parsing from some place on: a value and the index of the
\* code unit after it, or no value.
Parsed(value, next) == [ok |-> TRUE, value |-> value, next |-> next]
Unparsable == [ok |-> FALSE, value |-> Null, next |-> 0]

WhiteSpace == {32, 9, 10, 13}
Digits == 48..57

\* The code unit of text at index i (from 1), 0 beyond its end
unitAt(text, i) == IF i \in 1..Len(text) THEN text[i] ELSE 0

\* The index of the first code unit from i on that is no white space
skipWhiteSpace(text, i) ==
    IF \A j \in i..Len(text) : text[j] \in WhiteSpace THEN Len(text) + 1
    ELSE CHOOSE j \in i..Len(text) :
             text[j] \notin WhiteSpace /\ \A k \in i..(j - 1) : text[k] \in WhiteSpace

\* A run of one or more digits
isDigits(s) == s # <<>> /\ \A k \in 1..Len(s) : s[k] \in Digits

\* digits, optionally followed by '.' and digits
isDecimal(s) ==
    \/ isDigits(s)
    \/ \E p \in 2..(Len(s) - 1) :
           s[p] = 46 /\ isDigits(SubSeq(s, 1, p - 1)) /\ isDigits(SubSeq(s, p + 1, Len(s)))

\* optional sign, then digits
isExponent(s) == isDigits(IF s # <<>> /\ s[1] \in {43, 45} THEN Tail(s) ELSE s)

\* optional '-', then a decimal
isMantissa(s) == isDecimal(IF s # <<>> /\ s[1] = 45 THEN Tail(s) ELSE s)

\* A number literal: a mantissa, optionally followed by e or E and an
\* exponent
isNumberLiteral(s) ==
    \/ isMantissa(s)
    \/ \E p \in 2..(Len(s) - 1) :
           /\ s[p] \in {101, 69}
           /\ isMantissa(SubSeq(s, 1, p - 1))
           /\ isExponent(SubSeq(s, p + 1, Len(s)))

\* A string from the quote at index i on: it ends at the next quote that
\* no backslash precedes
parseString(text, i) ==
    IF \A q \in (i + 1)..Len(text) : text[q] # 34 \/ text[q - 1] = 92 THEN Unparsable
    ELSE Parsed(JsonValue("StringValue",
                          Span(i - 1,
                               firstIndex({q \in (i + 1)..Len(text) :
                                               text[q] = 34 /\ text[q - 1] # 92}) - 1),
                          SubSeq(text, i + 1,
                                 firstIndex({q \in (i + 1)..Len(text) :
                                                 text[q] = 34 /\ text[q - 1] # 92}) - 1),
                          <<>>, <<>>),
                firstIndex({q \in (i + 1)..Len(text) :
                                text[q] = 34 /\ text[q - 1] # 92}) + 1)

\* A number from index i on, ending before index end
parseNumber(text, i, end) ==
    IF isNumberLiteral(SubSeq(text, i, end - 1))
    THEN Parsed(JsonValue("NumberValue", Span(i - 1, end - 2),
                          SubSeq(text, i, end - 1), <<>>, <<>>), end)
    ELSE Unparsable

\* One of the words true, false and null from index i on
parseWord(text, i) ==
    IF startsWith(substr(text, i - 1), <<116, 114, 117, 101>> (* 'true' *))
    THEN Parsed(JsonValue("BooleanValue", Span(i - 1, i + 2), <<116, 114, 117, 101>> (* 'true' *), <<>>, <<>>), i + 4)
    ELSE IF startsWith(substr(text, i - 1), <<102, 97, 108, 115, 101>> (* 'false' *))
    THEN Parsed(JsonValue("BooleanValue", Span(i - 1, i + 3), <<102, 97, 108, 115, 101>> (* 'false' *), <<>>, <<>>), i + 5)
    ELSE IF startsWith(substr(text, i - 1), <<110, 117, 108, 108>> (* 'null' *))
    THEN Parsed(JsonValue("NullValue", Span(i - 1, i + 2), <<110, 117, 108, 108>> (* 'null' *), <<>>, <<>>), i + 4)
    ELSE Unparsable

\* The quote at index q opens or closes a string: no backslash precedes it
isQuote(text, q) == text[q] = 34 /\ (q = 1 \/ text[q - 1] # 92)

\* For every index, how many such quotes stand at or before it
quoteCounts(text) ==
    [i \in 1..Len(text) |-> Cardinality({q \in 1..i : isQuote(text, q)})]

\* The code unit at index j stands outside every string
isOutside(text, quotes, j) == ~isQuote(text, j) /\ quotes[j] % 2 = 0

\* For every index, how many objects and arrays are open there, the one
\* that an opening unit at the index opens and the one that a closing unit
\* at the index closes included
nestingLevels(text, quotes) ==
    [i \in 1..Len(text) |->
        Cardinality({j \in 1..i : isOutside(text, quotes, j) /\ text[j] \in {123, 91}})
            - Cardinality({j \in 1..(i - 1) :
                               isOutside(text, quotes, j) /\ text[j] \in {125, 93}})]

\* A text as the parser scans it
Scanned(text, quotes) ==
    [text |-> text, quotes |-> quotes, levels |-> nestingLevels(text, quotes)]

scan(text) == Scanned(text, quoteCounts(text))

\* The index of the unit that closes what the unit at index `open` opens,
\* 0 if none does
closerOf(s, open) ==
    firstIndex({j \in (open + 1)..Len(s.text) :
                    /\ isOutside(s.text, s.quotes, j)
                    /\ s.text[j] \in {125, 93}
                    /\ s.levels[j] = s.levels[open]})

\* The indices of the commas between the members of what opens at `open`
\* and closes at `close`, in order
separatorSet(s, open, close) ==
    {j \in (open + 1)..(close - 1) :
         isOutside(s.text, s.quotes, j) /\ s.text[j] = 44 /\ s.levels[j] = s.levels[open]}

inOrder(indices) ==
    [k \in 1..Cardinality(indices) |->
        CHOOSE i \in indices : Cardinality({j \in indices : j < i}) = k - 1]

separators(s, open, close) == inOrder(separatorSet(s, open, close))

\* The first and the last index of member k between the separators
memberStart(open, commas, k) == IF k = 1 THEN open + 1 ELSE commas[k - 1] + 1

memberEnd(close, commas, k) == IF k > Len(commas) THEN close - 1 ELSE commas[k] - 1

lastIndex(indices) ==
    IF indices = {} THEN 0 ELSE CHOOSE i \in indices : \A j \in indices : j <= i

\* The index of the last code unit up to index b that is no white space, 0
\* if there is none
lastUnit(text, b) == lastIndex({j \in 1..b : text[j] \notin WhiteSpace})

RECURSIVE valueIn(_, _, _)

\* The values parsed for the members, all of them parsed
allParsed(members) == \A k \in 1..Len(members) : members[k].ok

\* An array from index `open` to index `close` with the elements parsed as
\* `members`
arrayOf(open, close, members) ==
    IF ~allParsed(members) THEN Unparsable
    ELSE Parsed(JsonValue("ArrayValue", Span(open - 1, close - 1), <<>>, <<>>,
                          [k \in 1..Len(members) |-> members[k].value]),
                close + 1)

\* An object from index `open` to index `close` with the properties parsed
\* as `members`
objectOf(open, close, members) ==
    IF ~allParsed(members) THEN Unparsable
    ELSE Parsed(JsonValue("ObjectValue", Span(open - 1, close - 1), <<>>,
                          [k \in 1..Len(members) |-> members[k].value], <<>>),
                close + 1)

\* A property whose name was parsed as `name` and whose value as `value`
propertyOf(name, value) ==
    IF ~value.ok THEN Unparsable
    ELSE Parsed([name |-> [text |-> name.value.text, span |-> name.value.span],
                 value |-> value.value],
                value.next)

\* After the name of a property that ends at index b: a colon at index i
\* and the value
propertyColon(s, name, i, b) ==
    IF i > b \/ s.text[i] # 58 THEN Unparsable
    ELSE propertyOf(name, valueIn(s, i + 1, b))

propertyName(s, name, b) ==
    IF ~name.ok \/ name.next > b + 1 THEN Unparsable
    ELSE propertyColon(s, name, skipWhiteSpace(s.text, name.next), b)

\* The property that the code units from index a to index b are
propertyIn(s, a, b) ==
    IF a > b \/ s.text[a] # 34 THEN Unparsable
    ELSE propertyName(s, parseString(s.text, a), b)

\* The members of what opens at `open` and closes at `close`, the commas
\* between them at `commas`
parseProperties(s, open, close, commas) ==
    [k \in 1..(Len(commas) + 1) |->
        propertyIn(s, skipWhiteSpace(s.text, memberStart(open, commas, k)),
                   memberEnd(close, commas, k))]

parseElements(s, open, close, commas) ==
    [k \in 1..(Len(commas) + 1) |->
        valueIn(s, memberStart(open, commas, k),
                memberEnd(close, commas, k))]

\* An object or an array from index `open` to index `close`
parseObject(s, open, close) ==
    IF skipWhiteSpace(s.text, open + 1) = close THEN objectOf(open, close, <<>>)
    ELSE objectOf(open, close, parseProperties(s, open, close, separators(s, open, close)))

parseArray(s, open, close) ==
    IF skipWhiteSpace(s.text, open + 1) = close THEN arrayOf(open, close, <<>>)
    ELSE arrayOf(open, close, parseElements(s, open, close, separators(s, open, close)))

\* A value that was parsed from index a on ends at index b
endsAt(value, b) == IF value.ok /\ value.next = b + 1 THEN value ELSE Unparsable

\* The value that the code units from index a to index b are, neither of
\* the two white space
valueAt(s, a, b) ==
    CASE s.text[a] = 123 ->
             IF s.text[b] = 125 /\ closerOf(s, a) = b THEN parseObject(s, a, b)
             ELSE Unparsable
      [] s.text[a] = 91 ->
             IF s.text[b] = 93 /\ closerOf(s, a) = b THEN parseArray(s, a, b)
             ELSE Unparsable
      [] s.text[a] = 34 -> endsAt(parseString(s.text, a), b)
      [] s.text[a] \in Digits \cup {45} -> parseNumber(s.text, a, b + 1)
      [] OTHER -> endsAt(parseWord(s.text, a), b)

\* The value that the code units from index a to index b are, white space
\* before and after it
valueIn(s, a, b) ==
    IF skipWhiteSpace(s.text, a) > b \/ lastUnit(s.text, b) < a THEN Unparsable
    ELSE valueAt(s, skipWhiteSpace(s.text, a), lastUnit(s.text, b))

\* Json.parse(text): the value of the text, none for a text that is not
\* the text of one JSON value
parse(text) == valueIn(scan(text), 1, Len(text))

\* jsonValue.hasProperty(name) and jsonValue.getPropertyValue(name) of an
\* object value
hasProperty(jsonValue, name) == includes(jsonValue.propertyNames, name)

getPropertyValue(jsonValue, name) ==
    jsonValue.properties[CHOOSE k \in 1..Len(jsonValue.properties) :
                             /\ jsonValue.properties[k].name.text = name
                             /\ \A l \in (k + 1)..Len(jsonValue.properties) :
                                    jsonValue.properties[l].name.text # name].value

\* Number(literal) is an integer: the digits of the literal after the
\* place of the decimal point, as the exponent shifts it, are zeros
exponentAt(s) == firstIndex({p \in 1..Len(s) : s[p] \in {101, 69}})

mantissaOf(s) == IF exponentAt(s) = 0 THEN s ELSE SubSeq(s, 1, exponentAt(s) - 1)

RECURSIVE digitsValue(_)
digitsValue(s) == IF s = <<>> THEN 0 ELSE 10 * digitsValue(SubSeq(s, 1, Len(s) - 1)) + (s[Len(s)] - 48)

exponentOf(s) ==
    IF exponentAt(s) = 0 THEN 0
    ELSE IF s[exponentAt(s) + 1] = 45 THEN 0 - digitsValue(SubSeq(s, exponentAt(s) + 2, Len(s)))
    ELSE IF s[exponentAt(s) + 1] = 43 THEN digitsValue(SubSeq(s, exponentAt(s) + 2, Len(s)))
    ELSE digitsValue(SubSeq(s, exponentAt(s) + 1, Len(s)))

\* The digits of a mantissa, and how many of them stand before its point
digitsOf(m) == SelectSeq(m, LAMBDA u : u \in Digits)

pointOf(m) ==
    IF \E p \in 1..Len(m) : m[p] = 46
    THEN Len(digitsOf(SubSeq(m, 1, firstIndex({p \in 1..Len(m) : m[p] = 46}))))
    ELSE Len(digitsOf(m))

isInteger(literal) ==
    \A k \in 1..Len(digitsOf(mantissaOf(literal))) :
        k > pointOf(mantissaOf(literal)) + exponentOf(literal)
            => digitsOf(mantissaOf(literal))[k] = 48

(***************************************************************************)
(* The documents handed to the diagnostics: a text and the path of its     *)
(* file.                                                                   *)
(***************************************************************************)
\* A document of an interface and one of a capability model
InterfaceDocument(text) == [text |-> text, fsPath |-> <<116, 104, 101, 114, 109, 111, 115, 116, 97, 116, 46, 105, 110, 116, 101, 114, 102, 97, 99, 101, 46, 106, 115, 111, 110>> (* 'thermostat.interface.json' *)]
CapabilityModelDocument(text) ==
    [text |-> text, fsPath |-> <<116, 104, 101, 114, 109, 111, 115, 116, 97, 116, 46, 99, 97, 112, 97, 98, 105, 108, 105, 116, 121, 109, 111, 100, 101, 108, 46, 106, 115, 111, 110>> (* 'thermostat.capabilitymodel.json' *)]

\* No document: what the state holds before the first call of getIssues
NoDocument == [text |-> <<>>, fsPath |-> <<>>]

\* No text
EmptyText ==
    InterfaceDocument(<<>> (* '' *))

\* A text that ends within an array
TruncatedText ==
    InterfaceDocument(<<123, 34, 64, 116, 121, 112, 101, 34, 58, 32, 34, 73, 110, 116, 101, 114, 102, 97, 99, 101, 34, 44, 32, 34, 99, 111, 110, 116, 101, 110, 116, 115, 34, 58, 32, 91>> (* '{"@type": "Interface", "contents": [' *))

\* An array with a comma and no element after it
TrailingCommaText ==
    CapabilityModelDocument(<<91, 49, 44, 93>> (* '[1,]' *))

\* An interface with one telemetry, every value valid
ValidInterface ==
    InterfaceDocument(<<123, 34, 99, 111, 110, 116, 101, 110, 116, 115, 34, 58, 91, 123, 34, 64, 116, 121, 112, 101, 34, 58, 34, 84, 101, 108, 101, 109, 101, 116, 114, 121, 34, 44, 34, 110, 97, 109, 101, 34, 58, 34, 116, 101, 109, 112, 34, 44, 34, 115, 99, 104, 101, 109, 97, 34, 58, 34, 105, 110, 116, 101, 103, 101, 114, 34, 44, 34, 117, 110, 105, 116, 34, 58, 34, 99, 101, 108, 115, 105, 117, 115, 34, 44, 34, 101, 110, 117, 109, 86, 97, 108, 117, 101, 34, 58, 51, 44, 34, 114, 97, 116, 105, 111, 34, 58, 51, 46, 53, 125, 93, 44, 34, 64, 105, 100, 34, 58, 34, 117, 114, 110, 58, 97, 58, 98, 58, 49, 34, 44, 34, 64, 116, 121, 112, 101, 34, 58, 34, 73, 110, 116, 101, 114, 102, 97, 99, 101, 34, 44, 34, 64, 99, 111, 110, 116, 101, 120, 116, 34, 58, 34, 104, 116, 116, 112, 58, 47, 47, 97, 122, 117, 114, 101, 105, 111, 116, 46, 99, 111, 109, 47, 118, 49, 47, 99, 111, 110, 116, 101, 120, 116, 115, 47, 73, 110, 116, 101, 114, 102, 97, 99, 101, 46, 106, 115, 111, 110, 34, 125>> (* '{"contents":[{"@type":"Telemetry","name":"temp","schema":"integer","unit":"celsius","enumValue":3,"ratio":3.5}],"@id":"urn:a:b:1","@type":"Interface","@context":"http://azureiot.com/v1/contexts/Interface.json"}' *))

\* A schema object without @type, where two types are valid
UntypedSchema ==
    InterfaceDocument(<<123, 34, 99, 111, 110, 116, 101, 110, 116, 115, 34, 58, 91, 123, 34, 115, 99, 104, 101, 109, 97, 34, 58, 123, 34, 99, 111, 108, 111, 114, 34, 58, 91, 123, 34, 117, 110, 105, 116, 34, 58, 34, 75, 101, 108, 118, 105, 110, 34, 125, 93, 44, 34, 110, 97, 109, 101, 34, 58, 34, 98, 97, 100, 32, 110, 97, 109, 101, 33, 34, 125, 44, 34, 64, 116, 121, 112, 101, 34, 58, 34, 84, 101, 108, 101, 109, 101, 116, 114, 121, 34, 44, 34, 110, 97, 109, 101, 34, 58, 34, 116, 34, 125, 93, 44, 34, 64, 105, 100, 34, 58, 34, 117, 114, 110, 58, 97, 58, 98, 58, 49, 34, 44, 34, 64, 116, 121, 112, 101, 34, 58, 34, 73, 110, 116, 101, 114, 102, 97, 99, 101, 34, 44, 34, 64, 99, 111, 110, 116, 101, 120, 116, 34, 58, 34, 104, 116, 116, 112, 58, 47, 47, 97, 122, 117, 114, 101, 105, 111, 116, 46, 99, 111, 109, 47, 118, 49, 47, 99, 111, 110, 116, 101, 120, 116, 115, 47, 73, 110, 116, 101, 114, 102, 97, 99, 101, 46, 106, 115, 111, 110, 34, 125>> (* '{"contents":[{"schema":{"color":[{"unit":"Kelvin"}],"name":"bad name!"},"@type":"Telemetry","name":"t"}],"@id":"urn:a:b:1","@type":"Interface","@context":"http://azureiot.com/v1/contexts/Interface.json"}' *))

\* A root that states a type that is not valid for it
TelemetryAtRoot ==
    InterfaceDocument(<<123, 34, 64, 116, 121, 112, 101, 34, 58, 34, 84, 101, 108, 101, 109, 101, 116, 114, 121, 34, 44, 34, 110, 97, 109, 101, 34, 58, 34, 98, 97, 100, 32, 110, 97, 109, 101, 33, 34, 44, 34, 99, 111, 108, 111, 114, 34, 58, 49, 125>> (* '{"@type":"Telemetry","name":"bad name!","color":1}' *))

\* A content of a type that is not valid
UnknownContent ==
    InterfaceDocument(<<123, 34, 99, 111, 110, 116, 101, 110, 116, 115, 34, 58, 91, 123, 34, 64, 116, 121, 112, 101, 34, 58, 34, 66, 111, 103, 117, 115, 34, 44, 34, 110, 97, 109, 101, 34, 58, 34, 98, 97, 100, 32, 110, 97, 109, 101, 33, 34, 125, 93, 44, 34, 64, 105, 100, 34, 58, 34, 117, 114, 110, 58, 97, 58, 98, 58, 49, 34, 44, 34, 64, 116, 121, 112, 101, 34, 58, 34, 73, 110, 116, 101, 114, 102, 97, 99, 101, 34, 44, 34, 64, 99, 111, 110, 116, 101, 120, 116, 34, 58, 34, 104, 116, 116, 112, 58, 47, 47, 97, 122, 117, 114, 101, 105, 111, 116, 46, 99, 111, 109, 47, 118, 49, 47, 99, 111, 110, 116, 101, 120, 116, 115, 47, 73, 110, 116, 101, 114, 102, 97, 99, 101, 46, 106, 115, 111, 110, 34, 125>> (* '{"contents":[{"@type":"Bogus","name":"bad name!"}],"@id":"urn:a:b:1","@type":"Interface","@context":"http://azureiot.com/v1/contexts/Interface.json"}' *))

\* A content with an array of types, none of them valid, and a schema whose type is a number
UnknownContentTypes ==
    InterfaceDocument(<<123, 34, 99, 111, 110, 116, 101, 110, 116, 115, 34, 58, 91, 123, 34, 64, 116, 121, 112, 101, 34, 58, 91, 34, 66, 111, 103, 117, 115, 34, 93, 44, 34, 115, 99, 104, 101, 109, 97, 34, 58, 123, 34, 64, 116, 121, 112, 101, 34, 58, 49, 44, 34, 110, 97, 109, 101, 34, 58, 34, 116, 34, 125, 125, 93, 44, 34, 64, 105, 100, 34, 58, 34, 117, 114, 110, 58, 97, 58, 98, 58, 49, 34, 44, 34, 64, 116, 121, 112, 101, 34, 58, 34, 73, 110, 116, 101, 114, 102, 97, 99, 101, 34, 44, 34, 64, 99, 111, 110, 116, 101, 120, 116, 34, 58, 34, 104, 116, 116, 112, 58, 47, 47, 97, 122, 117, 114, 101, 105, 111, 116, 46, 99, 111, 109, 47, 118, 49, 47, 99, 111, 110, 116, 101, 120, 116, 115, 47, 73, 110, 116, 101, 114, 102, 97, 99, 101, 46, 106, 115, 111, 110, 34, 125>> (* '{"contents":[{"@type":["Bogus"],"schema":{"@type":1,"name":"t"}}],"@id":"urn:a:b:1","@type":"Interface","@context":"http://azureiot.com/v1/contexts/Interface.json"}' *))

\* A content that states its type twice
RepeatedType ==
    InterfaceDocument(<<123, 34, 99, 111, 110, 116, 101, 110, 116, 115, 34, 58, 91, 123, 34, 64, 116, 121, 112, 101, 34, 58, 91, 34, 84, 101, 108, 101, 109, 101, 116, 114, 121, 34, 44, 34, 84, 101, 108, 101, 109, 101, 116, 114, 121, 34, 93, 44, 34, 110, 97, 109, 101, 34, 58, 34, 116, 34, 125, 93, 44, 34, 64, 105, 100, 34, 58, 34, 117, 114, 110, 58, 97, 58, 98, 58, 49, 34, 44, 34, 64, 116, 121, 112, 101, 34, 58, 34, 73, 110, 116, 101, 114, 102, 97, 99, 101, 34, 44, 34, 64, 99, 111, 110, 116, 101, 120, 116, 34, 58, 34, 104, 116, 116, 112, 58, 47, 47, 97, 122, 117, 114, 101, 105, 111, 116, 46, 99, 111, 109, 47, 118, 49, 47, 99, 111, 110, 116, 101, 120, 116, 115, 47, 73, 110, 116, 101, 114, 102, 97, 99, 101, 46, 106, 115, 111, 110, 34, 125>> (* '{"contents":[{"@type":["Telemetry","Telemetry"],"name":"t"}],"@id":"urn:a:b:1","@type":"Interface","@context":"http://azureiot.com/v1/contexts/Interface.json"}' *))

\* A schema with an array of types, one of them not valid
UnknownSchemaType ==
    InterfaceDocument(<<123, 34, 99, 111, 110, 116, 101, 110, 116, 115, 34, 58, 91, 123, 34, 115, 99, 104, 101, 109, 97, 34, 58, 123, 34, 64, 116, 121, 112, 101, 34, 58, 91, 34, 69, 110, 117, 109, 34, 44, 34, 66, 111, 103, 117, 115, 34, 93, 44, 34, 99, 111, 108, 111, 114, 34, 58, 49, 125, 44, 34, 64, 116, 121, 112, 101, 34, 58, 34, 84, 101, 108, 101, 109, 101, 116, 114, 121, 34, 44, 34, 110, 97, 109, 101, 34, 58, 34, 116, 34, 125, 93, 44, 34, 64, 105, 100, 34, 58, 34, 117, 114, 110, 58, 97, 58, 98, 58, 49, 34, 44, 34, 64, 116, 121, 112, 101, 34, 58, 34, 73, 110, 116, 101, 114, 102, 97, 99, 101, 34, 44, 34, 64, 99, 111, 110, 116, 101, 120, 116, 34, 58, 34, 104, 116, 116, 112, 58, 47, 47, 97, 122, 117, 114, 101, 105, 111, 116, 46, 99, 111, 109, 47, 118, 49, 47, 99, 111, 110, 116, 101, 120, 116, 115, 47, 73, 110, 116, 101, 114, 102, 97, 99, 101, 46, 106, 115, 111, 110, 34, 125>> (* '{"contents":[{"schema":{"@type":["Enum","Bogus"],"color":1},"@type":"Telemetry","name":"t"}],"@id":"urn:a:b:1","@type":"Interface","@context":"http://azureiot.com/v1/contexts/Interface.json"}' *))

\* A telemetry without schema
MissingSchema ==
    InterfaceDocument(<<123, 34, 99, 111, 110, 116, 101, 110, 116, 115, 34, 58, 91, 123, 34, 64, 116, 121, 112, 101, 34, 58, 34, 84, 101, 108, 101, 109, 101, 116, 114, 121, 34, 44, 34, 110, 97, 109, 101, 34, 58, 34, 116, 101, 109, 112, 34, 125, 93, 44, 34, 64, 105, 100, 34, 58, 34, 117, 114, 110, 58, 97, 58, 98, 58, 49, 34, 44, 34, 64, 116, 121, 112, 101, 34, 58, 34, 73, 110, 116, 101, 114, 102, 97, 99, 101, 34, 44, 34, 64, 99, 111, 110, 116, 101, 120, 116, 34, 58, 34, 104, 116, 116, 112, 58, 47, 47, 97, 122, 117, 114, 101, 105, 111, 116, 46, 99, 111, 109, 47, 118, 49, 47, 99, 111, 110, 116, 101, 120, 116, 115, 47, 73, 110, 116, 101, 114, 102, 97, 99, 101, 46, 106, 115, 111, 110, 34, 125>> (* '{"contents":[{"@type":"Telemetry","name":"temp"}],"@id":"urn:a:b:1","@type":"Interface","@context":"http://azureiot.com/v1/contexts/Interface.json"}' *))

\* A telemetry without schema below a root of a type that is not valid
MissingSchemaBelowUnknown ==
    InterfaceDocument(<<123, 34, 99, 111, 110, 116, 101, 110, 116, 115, 34, 58, 91, 123, 34, 64, 116, 121, 112, 101, 34, 58, 34, 84, 101, 108, 101, 109, 101, 116, 114, 121, 34, 44, 34, 110, 97, 109, 101, 34, 58, 34, 116, 101, 109, 112, 34, 125, 44, 123, 34, 110, 97, 109, 101, 34, 58, 34, 116, 101, 109, 112, 34, 125, 93, 44, 34, 64, 116, 121, 112, 101, 34, 58, 34, 66, 111, 103, 117, 115, 34, 125>> (* '{"contents":[{"@type":"Telemetry","name":"temp"},{"name":"temp"}],"@type":"Bogus"}' *))

\* An object without properties
EmptyObject ==
    InterfaceDocument(<<123, 125>> (* '{}' *))

\* A capability model that implements nothing
EmptyCapabilityModel ==
    CapabilityModelDocument(<<123, 34, 105, 109, 112, 108, 101, 109, 101, 110, 116, 115, 34, 58, 91, 93, 125>> (* '{"implements":[]}' *))

\* An array of two objects of the same name
TwoTemps ==
    InterfaceDocument(<<91, 123, 34, 110, 97, 109, 101, 34, 58, 34, 116, 101, 109, 112, 34, 125, 44, 123, 34, 110, 97, 109, 101, 34, 58, 34, 116, 101, 109, 112, 34, 125, 93>> (* '[{"name":"temp"},{"name":"temp"}]' *))

\* Contents with three telemetries of one name and one of another
ThreeTemps ==
    InterfaceDocument(<<123, 34, 99, 111, 110, 116, 101, 110, 116, 115, 34, 58, 91, 123, 34, 64, 116, 121, 112, 101, 34, 58, 34, 84, 101, 108, 101, 109, 101, 116, 114, 121, 34, 44, 34, 110, 97, 109, 101, 34, 58, 34, 116, 101, 109, 112, 34, 44, 34, 115, 99, 104, 101, 109, 97, 34, 58, 34, 105, 110, 116, 101, 103, 101, 114, 34, 125, 44, 123, 34, 64, 116, 121, 112, 101, 34, 58, 34, 84, 101, 108, 101, 109, 101, 116, 114, 121, 34, 44, 34, 110, 97, 109, 101, 34, 58, 34, 116, 101, 109, 112, 34, 44, 34, 115, 99, 104, 101, 109, 97, 34, 58, 34, 105, 110, 116, 101, 103, 101, 114, 34, 125, 44, 123, 34, 64, 116, 121, 112, 101, 34, 58, 34, 84, 101, 108, 101, 109, 101, 116, 114, 121, 34, 44, 34, 110, 97, 109, 101, 34, 58, 34, 84, 101, 109, 112, 34, 44, 34, 115, 99, 104, 101, 109, 97, 34, 58, 34, 105, 110, 116, 101, 103, 101, 114, 34, 125, 44, 123, 34, 64, 116, 121, 112, 101, 34, 58, 34, 84, 101, 108, 101, 109, 101, 116, 114, 121, 34, 44, 34, 110, 97, 109, 101, 34, 58, 34, 116, 101, 109, 112, 34, 44, 34, 115, 99, 104, 101, 109, 97, 34, 58, 34, 105, 110, 116, 101, 103, 101, 114, 34, 125, 93, 44, 34, 64, 105, 100, 34, 58, 34, 117, 114, 110, 58, 97, 58, 98, 58, 49, 34, 44, 34, 64, 116, 121, 112, 101, 34, 58, 34, 73, 110, 116, 101, 114, 102, 97, 99, 101, 34, 44, 34, 64, 99, 111, 110, 116, 101, 120, 116, 34, 58, 34, 104, 116, 116, 112, 58, 47, 47, 97, 122, 117, 114, 101, 105, 111, 116, 46, 99, 111, 109, 47, 118, 49, 47, 99, 111, 110, 116, 101, 120, 116, 115, 47, 73, 110, 116, 101, 114, 102, 97, 99, 101, 46, 106, 115, 111, 110, 34, 125>> (* '{"contents":[{"@type":"Telemetry","name":"temp","schema":"integer"},{"@type":"Telemetry","name":"temp","schema":"integer"},{"@type":"Telemetry","name":"Temp","schema":"integer"},{"@type":"Telemetry","name":"temp","schema":"integer"}],"@id":"urn:a:b:1","@type":"Interface","@context":"http://azureiot.com/v1/contexts/Interface.json"}' *))

\* An array of objects with and without names, and of other values
MixedNames ==
    CapabilityModelDocument(<<91, 123, 34, 110, 97, 109, 101, 34, 58, 34, 97, 34, 125, 44, 34, 97, 34, 44, 123, 34, 110, 97, 109, 101, 34, 58, 49, 125, 44, 123, 34, 110, 97, 109, 101, 34, 58, 34, 98, 34, 125, 44, 123, 34, 105, 100, 34, 58, 34, 97, 34, 125, 44, 123, 34, 110, 97, 109, 101, 34, 58, 34, 98, 34, 125, 44, 123, 34, 110, 97, 109, 101, 34, 58, 34, 97, 34, 125, 93>> (* '[{"name":"a"},"a",{"name":1},{"name":"b"},{"id":"a"},{"name":"b"},{"name":"a"}]' *))

\* A unit that differs from a legal one in case
UnitKelvin ==
    InterfaceDocument(<<123, 34, 99, 111, 110, 116, 101, 110, 116, 115, 34, 58, 91, 123, 34, 64, 116, 121, 112, 101, 34, 58, 34, 84, 101, 108, 101, 109, 101, 116, 114, 121, 34, 44, 34, 110, 97, 109, 101, 34, 58, 34, 116, 101, 109, 112, 34, 44, 34, 115, 99, 104, 101, 109, 97, 34, 58, 34, 105, 110, 116, 101, 103, 101, 114, 34, 44, 34, 117, 110, 105, 116, 34, 58, 34, 75, 101, 108, 118, 105, 110, 34, 125, 93, 44, 34, 64, 105, 100, 34, 58, 34, 117, 114, 110, 58, 97, 58, 98, 58, 49, 34, 44, 34, 64, 116, 121, 112, 101, 34, 58, 34, 73, 110, 116, 101, 114, 102, 97, 99, 101, 34, 44, 34, 64, 99, 111, 110, 116, 101, 120, 116, 34, 58, 34, 104, 116, 116, 112, 58, 47, 47, 97, 122, 117, 114, 101, 105, 111, 116, 46, 99, 111, 109, 47, 118, 49, 47, 99, 111, 110, 116, 101, 120, 116, 115, 47, 73, 110, 116, 101, 114, 102, 97, 99, 101, 46, 106, 115, 111, 110, 34, 125>> (* '{"contents":[{"@type":"Telemetry","name":"temp","schema":"integer","unit":"Kelvin"}],"@id":"urn:a:b:1","@type":"Interface","@context":"http://azureiot.com/v1/contexts/Interface.json"}' *))

\* A context in upper case, and contents that are empty
UpperCaseContext ==
    InterfaceDocument(<<123, 34, 64, 105, 100, 34, 58, 34, 117, 114, 110, 58, 97, 58, 98, 58, 49, 34, 44, 34, 64, 116, 121, 112, 101, 34, 58, 34, 73, 110, 116, 101, 114, 102, 97, 99, 101, 34, 44, 34, 64, 99, 111, 110, 116, 101, 120, 116, 34, 58, 34, 72, 84, 84, 80, 58, 47, 47, 65, 90, 85, 82, 69, 73, 79, 84, 46, 67, 79, 77, 47, 86, 49, 47, 67, 79, 78, 84, 69, 88, 84, 83, 47, 73, 78, 84, 69, 82, 70, 65, 67, 69, 46, 74, 83, 79, 78, 34, 44, 34, 99, 111, 110, 116, 101, 110, 116, 115, 34, 58, 91, 93, 125>> (* '{"@id":"urn:a:b:1","@type":"Interface","@context":"HTTP://AZUREIOT.COM/V1/CONTEXTS/INTERFACE.JSON","contents":[]}' *))

\* An interface with the context of a capability model
OtherContext ==
    InterfaceDocument(<<123, 34, 64, 105, 100, 34, 58, 34, 117, 114, 110, 58, 97, 58, 98, 58, 49, 34, 44, 34, 64, 116, 121, 112, 101, 34, 58, 34, 73, 110, 116, 101, 114, 102, 97, 99, 101, 34, 44, 34, 64, 99, 111, 110, 116, 101, 120, 116, 34, 58, 34, 104, 116, 116, 112, 58, 47, 47, 97, 122, 117, 114, 101, 105, 111, 116, 46, 99, 111, 109, 47, 118, 49, 47, 99, 111, 110, 116, 101, 120, 116, 115, 47, 67, 97, 112, 97, 98, 105, 108, 105, 116, 121, 77, 111, 100, 101, 108, 46, 106, 115, 111, 110, 34, 125>> (* '{"@id":"urn:a:b:1","@type":"Interface","@context":"http://azureiot.com/v1/contexts/CapabilityModel.json"}' *))

\* A name with a space and a mark
BadName ==
    InterfaceDocument(<<123, 34, 99, 111, 110, 116, 101, 110, 116, 115, 34, 58, 91, 123, 34, 64, 116, 121, 112, 101, 34, 58, 34, 84, 101, 108, 101, 109, 101, 116, 114, 121, 34, 44, 34, 110, 97, 109, 101, 34, 58, 34, 98, 97, 100, 32, 110, 97, 109, 101, 33, 34, 44, 34, 115, 99, 104, 101, 109, 97, 34, 58, 34, 105, 110, 116, 101, 103, 101, 114, 34, 125, 93, 44, 34, 64, 105, 100, 34, 58, 34, 117, 114, 110, 58, 97, 58, 98, 58, 49, 34, 44, 34, 64, 116, 121, 112, 101, 34, 58, 34, 73, 110, 116, 101, 114, 102, 97, 99, 101, 34, 44, 34, 64, 99, 111, 110, 116, 101, 120, 116, 34, 58, 34, 104, 116, 116, 112, 58, 47, 47, 97, 122, 117, 114, 101, 105, 111, 116, 46, 99, 111, 109, 47, 118, 49, 47, 99, 111, 110, 116, 101, 120, 116, 115, 47, 73, 110, 116, 101, 114, 102, 97, 99, 101, 46, 106, 115, 111, 110, 34, 125>> (* '{"contents":[{"@type":"Telemetry","name":"bad name!","schema":"integer"}],"@id":"urn:a:b:1","@type":"Interface","@context":"http://azureiot.com/v1/contexts/Interface.json"}' *))

\* An id of two segments, an empty name and a schema that is a URN
BadId ==
    CapabilityModelDocument(<<123, 34, 105, 109, 112, 108, 101, 109, 101, 110, 116, 115, 34, 58, 91, 123, 34, 110, 97, 109, 101, 34, 58, 34, 34, 44, 34, 115, 99, 104, 101, 109, 97, 34, 58, 34, 117, 114, 110, 58, 97, 58, 98, 58, 49, 34, 125, 93, 44, 34, 64, 105, 100, 34, 58, 34, 117, 114, 110, 58, 97, 34, 44, 34, 64, 116, 121, 112, 101, 34, 58, 34, 67, 97, 112, 97, 98, 105, 108, 105, 116, 121, 77, 111, 100, 101, 108, 34, 44, 34, 64, 99, 111, 110, 116, 101, 120, 116, 34, 58, 34, 104, 116, 116, 112, 58, 47, 47, 97, 122, 117, 114, 101, 105, 111, 116, 46, 99, 111, 109, 47, 118, 49, 47, 99, 111, 110, 116, 101, 120, 116, 115, 47, 73, 111, 84, 77, 111, 100, 101, 108, 46, 106, 115, 111, 110, 34, 125>> (* '{"implements":[{"name":"","schema":"urn:a:b:1"}],"@id":"urn:a","@type":"CapabilityModel","@context":"http://azureiot.com/v1/contexts/IoTModel.json"}' *))

\* An interface whose id is a URN of more than 256 characters
LongId ==
    InterfaceDocument(<<123, 34, 64, 105, 100, 34, 58, 34, 117, 114, 110, 58, 97, 97, 97, 97, 97, 97, 97, 97, 97, 97, 97, 97, 97, 97, 97, 97, 97, 97, 97, 97, 97, 97, 97, 97, 97, 97, 97, 97, 97, 97, 97, 97, 97, 97, 97, 97, 97, 97, 97, 97, 97, 97, 97, 97, 97, 97, 97, 97, 97, 97, 97, 97, 97, 97, 97, 97, 97, 97, 97, 97, 97, 97, 97, 97, 97, 97, 97, 97, 97, 97, 97, 97, 97, 97, 97, 97, 97, 97, 97, 97, 97, 97, 97, 97, 97, 97, 97, 97, 97, 97, 97, 97, 97, 97, 97, 97, 97, 97, 97, 97, 97, 97, 97, 97, 97, 97, 97, 97, 97, 97, 97, 97, 97, 97, 97, 97, 97, 97, 97, 97, 97, 97, 97, 97, 97, 97, 97, 97, 97, 97, 97, 97, 97, 97, 97, 97, 97, 97, 97, 97, 97, 97, 97, 97, 97, 97, 97, 97, 97, 97, 97, 97, 97, 97, 97, 97, 97, 97, 97, 97, 97, 97, 97, 97, 97, 97, 97, 97, 97, 97, 97, 97, 97, 97, 97, 97, 97, 97, 97, 97, 97, 97, 97, 97, 97, 97, 97, 97, 97, 97, 97, 97, 97, 97, 97, 97, 97, 97, 97, 97, 97, 97, 97, 97, 97, 97, 97, 97, 97, 97, 97, 97, 97, 97, 97, 97, 97, 97, 97, 97, 97, 97, 97, 97, 97, 97, 97, 97, 97, 97, 97, 97, 97, 97, 97, 97, 97, 97, 97, 97, 97, 97, 97, 97, 97, 97, 97, 97, 97, 97, 58, 98, 58, 49, 34, 44, 34, 64, 116, 121, 112, 101, 34, 58, 34, 73, 110, 116, 101, 114, 102, 97, 99, 101, 34, 44, 34, 64, 99, 111, 110, 116, 101, 120, 116, 34, 58, 34, 104, 116, 116, 112, 58, 47, 47, 97, 122, 117, 114, 101, 105, 111, 116, 46, 99, 111, 109, 47, 118, 49, 47, 99, 111, 110, 116, 101, 120, 116, 115, 47, 73, 110, 116, 101, 114, 102, 97, 99, 101, 46, 106, 115, 111, 110, 34, 125>> (* '{"@id":"urn:aaaaaaaaaaaaaaaaaaaaaaaaaaaaaaaaaaaaaaaaaaaaaaaaaaaaaaaaaaaaaaaaaaaaaaaaaaaaaaaaaaaaaaaaaaaaaaaaaaaaaaaaaaaaaaaaaaaaaaaaaaaaaaaaaaaaaaaaaaaaaaaaaaaaaaaaaaaaaaaaaaaaaaaaaaaaaaaaaaaaaaaaaaaaaaaaaaaaaaaaaaaaaaaaaaaaaaaaaaaaaaaaaaaaaaaaaaaaaaaaaaaaaaaaaa:b:1","@type":"Interface","@context":"http://azureiot.com/v1/contexts/Interface.json"}' *))

\* A telemetry with an @id and with a property that telemetries do not have
UnexpectedColor ==
    InterfaceDocument(<<123, 34, 99, 111, 110, 116, 101, 110, 116, 115, 34, 58, 91, 123, 34, 64, 116, 121, 112, 101, 34, 58, 34, 84, 101, 108, 101, 109, 101, 116, 114, 121, 34, 44, 34, 110, 97, 109, 101, 34, 58, 34, 116, 34, 44, 34, 115, 99, 104, 101, 109, 97, 34, 58, 34, 105, 110, 116, 101, 103, 101, 114, 34, 44, 34, 99, 111, 108, 111, 114, 34, 58, 49, 44, 34, 64, 105, 100, 34, 58, 34, 117, 114, 110, 58, 97, 58, 98, 58, 50, 34, 125, 93, 44, 34, 64, 105, 100, 34, 58, 34, 117, 114, 110, 58, 97, 58, 98, 58, 49, 34, 44, 34, 64, 116, 121, 112, 101, 34, 58, 34, 73, 110, 116, 101, 114, 102, 97, 99, 101, 34, 44, 34, 64, 99, 111, 110, 116, 101, 120, 116, 34, 58, 34, 104, 116, 116, 112, 58, 47, 47, 97, 122, 117, 114, 101, 105, 111, 116, 46, 99, 111, 109, 47, 118, 49, 47, 99, 111, 110, 116, 101, 120, 116, 115, 47, 73, 110, 116, 101, 114, 102, 97, 99, 101, 46, 106, 115, 111, 110, 34, 125>> (* '{"contents":[{"@type":"Telemetry","name":"t","schema":"integer","color":1,"@id":"urn:a:b:2"}],"@id":"urn:a:b:1","@type":"Interface","@context":"http://azureiot.com/v1/contexts/Interface.json"}' *))

\* A capability model with interfaces without @context: an inline interface, one within it, and one beside it
InlineAndOutside ==
    CapabilityModelDocument(<<123, 34, 105, 109, 112, 108, 101, 109, 101, 110, 116, 115, 34, 58, 91, 123, 34, 110, 97, 109, 101, 34, 58, 34, 97, 34, 44, 34, 115, 99, 104, 101, 109, 97, 34, 58, 123, 34, 64, 116, 121, 112, 101, 34, 58, 34, 73, 110, 116, 101, 114, 102, 97, 99, 101, 34, 44, 34, 64, 105, 100, 34, 58, 34, 117, 114, 110, 58, 97, 58, 98, 58, 50, 34, 44, 34, 98, 111, 103, 117, 115, 34, 58, 123, 34, 64, 116, 121, 112, 101, 34, 58, 34, 73, 110, 116, 101, 114, 102, 97, 99, 101, 34, 44, 34, 64, 105, 100, 34, 58, 34, 117, 114, 110, 58, 97, 58, 98, 58, 51, 34, 125, 125, 44, 34, 98, 111, 103, 117, 115, 34, 58, 123, 34, 64, 116, 121, 112, 101, 34, 58, 34, 73, 110, 116, 101, 114, 102, 97, 99, 101, 34, 44, 34, 64, 105, 100, 34, 58, 34, 117, 114, 110, 58, 97, 58, 98, 58, 52, 34, 125, 125, 93, 44, 34, 64, 105, 100, 34, 58, 34, 117, 114, 110, 58, 97, 58, 98, 58, 49, 34, 44, 34, 64, 116, 121, 112, 101, 34, 58, 34, 67, 97, 112, 97, 98, 105, 108, 105, 116, 121, 77, 111, 100, 101, 108, 34, 44, 34, 64, 99, 111, 110, 116, 101, 120, 116, 34, 58, 34, 104, 116, 116, 112, 58, 47, 47, 97, 122, 117, 114, 101, 105, 111, 116, 46, 99, 111, 109, 47, 118, 49, 47, 99, 111, 110, 116, 101, 120, 116, 115, 47, 73, 111, 84, 77, 111, 100, 101, 108, 46, 106, 115, 111, 110, 34, 125>> (* '{"implements":[{"name":"a","schema":{"@type":"Interface","@id":"urn:a:b:2","bogus":{"@type":"Interface","@id":"urn:a:b:3"}},"bogus":{"@type":"Interface","@id":"urn:a:b:4"}}],"@id":"urn:a:b:1","@type":"CapabilityModel","@context":"http://azureiot.com/v1/contexts/IoTModel.json"}' *))

\* A capability model with an inline interface that has neither @id nor @context
InlineInterface ==
    CapabilityModelDocument(<<123, 34, 105, 109, 112, 108, 101, 109, 101, 110, 116, 115, 34, 58, 91, 123, 34, 110, 97, 109, 101, 34, 58, 34, 97, 34, 44, 34, 115, 99, 104, 101, 109, 97, 34, 58, 123, 34, 64, 116, 121, 112, 101, 34, 58, 34, 73, 110, 116, 101, 114, 102, 97, 99, 101, 34, 44, 34, 99, 111, 110, 116, 101, 110, 116, 115, 34, 58, 91, 93, 125, 125, 93, 44, 34, 64, 105, 100, 34, 58, 34, 117, 114, 110, 58, 97, 58, 98, 58, 49, 34, 44, 34, 64, 116, 121, 112, 101, 34, 58, 34, 67, 97, 112, 97, 98, 105, 108, 105, 116, 121, 77, 111, 100, 101, 108, 34, 44, 34, 64, 99, 111, 110, 116, 101, 120, 116, 34, 58, 34, 104, 116, 116, 112, 58, 47, 47, 97, 122, 117, 114, 101, 105, 111, 116, 46, 99, 111, 109, 47, 118, 49, 47, 99, 111, 110, 116, 101, 120, 116, 115, 47, 73, 111, 84, 77, 111, 100, 101, 108, 46, 106, 115, 111, 110, 34, 125>> (* '{"implements":[{"name":"a","schema":{"@type":"Interface","contents":[]}}],"@id":"urn:a:b:1","@type":"CapabilityModel","@context":"http://azureiot.com/v1/contexts/IoTModel.json"}' *))

\* An enumValue and a ratio with a fraction
FractionalEnumValue ==
    InterfaceDocument(<<123, 34, 99, 111, 110, 116, 101, 110, 116, 115, 34, 58, 91, 123, 34, 64, 116, 121, 112, 101, 34, 58, 34, 84, 101, 108, 101, 109, 101, 116, 114, 121, 34, 44, 34, 110, 97, 109, 101, 34, 58, 34, 116, 101, 109, 112, 34, 44, 34, 115, 99, 104, 101, 109, 97, 34, 58, 34, 105, 110, 116, 101, 103, 101, 114, 34, 44, 34, 101, 110, 117, 109, 86, 97, 108, 117, 101, 34, 58, 51, 46, 53, 44, 34, 114, 97, 116, 105, 111, 34, 58, 50, 46, 53, 101, 45, 49, 125, 93, 44, 34, 64, 105, 100, 34, 58, 34, 117, 114, 110, 58, 97, 58, 98, 58, 49, 34, 44, 34, 64, 116, 121, 112, 101, 34, 58, 34, 73, 110, 116, 101, 114, 102, 97, 99, 101, 34, 44, 34, 64, 99, 111, 110, 116, 101, 120, 116, 34, 58, 34, 104, 116, 116, 112, 58, 47, 47, 97, 122, 117, 114, 101, 105, 111, 116, 46, 99, 111, 109, 47, 118, 49, 47, 99, 111, 110, 116, 101, 120, 116, 115, 47, 73, 110, 116, 101, 114, 102, 97, 99, 101, 46, 106, 115, 111, 110, 34, 125>> (* '{"contents":[{"@type":"Telemetry","name":"temp","schema":"integer","enumValue":3.5,"ratio":2.5e-1}],"@id":"urn:a:b:1","@type":"Interface","@context":"http://azureiot.com/v1/contexts/Interface.json"}' *))

\* Numbers written with a point or an exponent, integers and not
IntegralNumbers ==
    InterfaceDocument(<<123, 34, 99, 111, 110, 116, 101, 110, 116, 115, 34, 58, 91, 123, 34, 64, 116, 121, 112, 101, 34, 58, 34, 84, 101, 108, 101, 109, 101, 116, 114, 121, 34, 44, 34, 110, 97, 109, 101, 34, 58, 34, 116, 101, 109, 112, 34, 44, 34, 115, 99, 104, 101, 109, 97, 34, 58, 34, 105, 110, 116, 101, 103, 101, 114, 34, 44, 34, 101, 110, 117, 109, 86, 97, 108, 117, 101, 34, 58, 51, 46, 48, 44, 34, 114, 97, 116, 105, 111, 34, 58, 51, 53, 101, 45, 49, 44, 34, 117, 110, 105, 116, 34, 58, 91, 50, 53, 101, 45, 49, 44, 50, 53, 101, 49, 93, 125, 93, 44, 34, 64, 105, 100, 34, 58, 34, 117, 114, 110, 58, 97, 58, 98, 58, 49, 34, 44, 34, 64, 116, 121, 112, 101, 34, 58, 34, 73, 110, 116, 101, 114, 102, 97, 99, 101, 34, 44, 34, 64, 99, 111, 110, 116, 101, 120, 116, 34, 58, 34, 104, 116, 116, 112, 58, 47, 47, 97, 122, 117, 114, 101, 105, 111, 116, 46, 99, 111, 109, 47, 118, 49, 47, 99, 111, 110, 116, 101, 120, 116, 115, 47, 73, 110, 116, 101, 114, 102, 97, 99, 101, 46, 106, 115, 111, 110, 34, 125>> (* '{"contents":[{"@type":"Telemetry","name":"temp","schema":"integer","enumValue":3.0,"ratio":35e-1,"unit":[25e-1,25e1]}],"@id":"urn:a:b:1","@type":"Interface","@context":"http://azureiot.com/v1/contexts/Interface.json"}' *))

\* Fractions below a key that the context does not resolve, in arrays and at an array key
FractionBelowUnknownKey ==
    InterfaceDocument(<<123, 34, 98, 111, 103, 117, 115, 34, 58, 123, 34, 101, 110, 117, 109, 86, 97, 108, 117, 101, 34, 58, 51, 46, 53, 125, 44, 34, 101, 110, 117, 109, 86, 97, 108, 117, 101, 34, 58, 91, 51, 46, 53, 44, 91, 45, 48, 46, 53, 93, 93, 44, 34, 99, 111, 110, 116, 101, 110, 116, 115, 34, 58, 49, 46, 53, 125>> (* '{"bogus":{"enumValue":3.5},"enumValue":[3.5,[-0.5]],"contents":1.5}' *))

\* An array of numbers at the root
RootFraction ==
    CapabilityModelDocument(<<91, 51, 46, 53, 44, 32, 50, 93>> (* '[3.5, 2]' *))

Documents ==
    {EmptyText, TruncatedText, TrailingCommaText, ValidInterface,
     UntypedSchema, TelemetryAtRoot, UnknownContent, UnknownContentTypes,
     RepeatedType, UnknownSchemaType, MissingSchema, MissingSchemaBelowUnknown,
     EmptyObject, EmptyCapabilityModel, TwoTemps, ThreeTemps,
     MixedNames, UnitKelvin, UpperCaseContext, OtherContext,
     BadName, BadId, LongId, UnexpectedColor,
     InlineAndOutside, InlineInterface, FractionalEnumValue, IntegralNumbers,
     FractionBelowUnknownKey, RootFraction}

\* Json.parse(document.getText()) for each of the documents
jsonOf == [d \in Documents |-> parse(d.text)]

(***************************************************************************)
(* DigitalTwinDiagnostic.  A document is [text, fsPath]; an issue is       *)
(* [startIndex, endIndex, message].  An operation that queries the parser  *)
(* takes it (st) and yields it with the issues returned, or with the       *)
(* RangeError that a query has thrown.                                     *)
(***************************************************************************)
\* ModelType of constants
ModelType == [Interface |-> <<73, 110, 116, 101, 114, 102, 97, 99, 101>> (* 'Interface' *), CapabilityModel |-> <<67, 97, 112, 97, 98, 105, 108, 105, 116, 121, 77, 111, 100, 101, 108>> (* 'CapabilityModel' *)]

\* ContextUris of constants
ContextUris ==
    [interface |-> <<104, 116, 116, 112, 58, 47, 47, 97, 122, 117, 114, 101, 105, 111, 116, 46, 99, 111, 109, 47, 118, 49, 47, 99, 111, 110, 116, 101, 120, 116, 115, 47, 73, 110, 116, 101, 114, 102, 97, 99, 101, 46, 106, 115, 111, 110>> (* 'http://azureiot.com/v1/contexts/Interface.json' *),
     capabilityModel |-> <<104, 116, 116, 112, 58, 47, 47, 97, 122, 117, 114, 101, 105, 111, 116, 46, 99, 111, 109, 47, 118, 49, 47, 99, 111, 110, 116, 101, 120, 116, 115, 47, 67, 97, 112, 97, 98, 105, 108, 105, 116, 121, 77, 111, 100, 101, 108, 46, 106, 115, 111, 110>> (* 'http://azureiot.com/v1/contexts/CapabilityModel.json' *),
     iotModel |-> <<104, 116, 116, 112, 58, 47, 47, 97, 122, 117, 114, 101, 105, 111, 116, 46, 99, 111, 109, 47, 118, 49, 47, 99, 111, 110, 116, 101, 120, 116, 115, 47, 73, 111, 84, 77, 111, 100, 101, 108, 46, 106, 115, 111, 110>> (* 'http://azureiot.com/v1/contexts/IoTModel.json' *)]

\* DTDLKeywords.inlineInterfaceKeyName
inlineInterfaceKeyName == <<105, 110, 116, 101, 114, 102, 97, 99, 101, 83, 99, 104, 101, 109, 97>> (* 'interfaceSchema' *)

Issue(startIndex, endIndex, message) ==
    [startIndex |-> startIndex, endIndex |-> endIndex, message |-> message]

\* /\.interface\.json$/.test(document.uri.fsPath), and of document.fileName
isInterfaceFile(document) ==
    /\ Len(document.fsPath) >= Len(<<46, 105, 110, 116, 101, 114, 102, 97, 99, 101, 46, 106, 115, 111, 110>> (* '.interface.json' *))
    /\ substr(document.fsPath, Len(document.fsPath) - Len(<<46, 105, 110, 116, 101, 114, 102, 97, 99, 101, 46, 106, 115, 111, 110>> (* '.interface.json' *)))
           = <<46, 105, 110, 116, 101, 114, 102, 97, 99, 101, 46, 106, 115, 111, 110>> (* '.interface.json' *)

\* if (jsonKey): the key is neither undefined nor ''
isKey(jsonKey) == jsonKey \notin {Undefined, <<>>}

\* array.join(separator)
RECURSIVE join(_, _)
join(array, separator) ==
    IF array = <<>> THEN <<>>
    ELSE IF Len(array) = 1 THEN array[1]
    ELSE array[1] \o separator \o join(Tail(array), separator)

\* value.toLowerCase()
toLowerCase(value) ==
    [k \in 1..Len(value) |-> IF value[k] \in 65..90 THEN value[k] + 32 ELSE value[k]]

\* _isValidStringValue that lowers the case whatever caseInsensitive is
isValidStringValueOfAnyCase(value, range, caseInsensitive) ==
    \E k \in 1..Len(range) : toLowerCase(range[k]) = toLowerCase(value)

\* _isValidStringValue (lines 23-36)
isValidStringValue(value, range, caseInsensitive) ==
    \E k \in 1..Len(range) :
        IF caseInsensitive THEN toLowerCase(range[k]) = toLowerCase(value)
        ELSE range[k] = value

\* getStringValuePattern (part_001 lines 760-773): the pattern of a key, by
\* name, or null
getStringValuePattern(key) ==
    CASE key = <<64, 105, 100>> (* '@id' *) -> "urnPattern"
      [] key = <<110, 97, 109, 101>> (* 'name' *) -> "namePattern"
      [] key = <<115, 99, 104, 101, 109, 97>> (* 'schema' *) -> "urnPattern"
      [] OTHER -> "null"

\* getStringValueLengthRange (part_001 lines 775-786)
getStringValueLengthRange(key) ==
    CASE key = <<64, 105, 100>> (* '@id' *) -> <<0, 256>>
      [] key = <<115, 99, 104, 101, 109, 97>> (* 'schema' *) -> <<0, 256>>
      [] OTHER -> Null

\* [a-zA-Z0-9_]+
isWord(s) ==
    s # <<>> /\ \A k \in 1..Len(s) : s[k] \in (97..122) \cup (65..90) \cup Digits \cup {95}

\* The places of the colons of s, and the segment between colon i and
\* colon i + 1 (the start and the end of s being colons 0 and n + 1)
colons(s) == SelectSeq([k \in 1..Len(s) |-> k], LAMBDA k : s[k] = 58)

segment(s, i) ==
    SubSeq(s, IF i = 0 THEN 1 ELSE colons(s)[i] + 1,
           IF i = Len(colons(s)) THEN Len(s) ELSE colons(s)[i + 1] - 1)

\* pattern.test(value) for
\* /^urn:([a-zA-Z0-9_]+:)+[a-zA-Z0-9_]+:\d+$/ and /^[a-zA-Z0-9_]+$/
test(pattern, value) ==
    IF pattern = "namePattern" THEN isWord(value)
    ELSE /\ Len(colons(value)) >= 3
         /\ segment(value, 0) = <<117, 114, 110>> (* 'urn' *)
         /\ \A i \in 1..(Len(colons(value)) - 1) : isWord(segment(value, i))
         /\ isDigits(segment(value, Len(colons(value))))

\* if (pattern) ... issues.push(issue) (lines 208-224)
patternIssues(jsonValue, jsonKey) ==
    IF getStringValuePattern(jsonKey) # "null"
           /\ ~test(getStringValuePattern(jsonKey), jsonValue.text)
    THEN <<Issue(jsonValue.span.startIndex, jsonValue.span.endIndex,
                 <<73, 110, 118, 97, 108, 105, 100, 32, 118, 97, 108, 117, 101, 46, 32, 86, 97, 108, 105, 100, 32, 118, 97, 108, 117, 101, 32, 109, 117, 115, 116, 32, 109, 97, 116, 99, 104, 32, 116, 104, 105, 115, 58, 32>> (* 'Invalid value. Valid value must match this: ' *)
                     \o (IF jsonKey \in {<<64, 105, 100>> (* '@id' *), <<115, 99, 104, 101, 109, 97>> (* 'schema' *)}
                         THEN <<84, 104, 101, 32, 105, 100, 32, 115, 104, 111, 117, 108, 100, 32, 98, 101, 32, 97, 32, 115, 105, 109, 112, 108, 101, 32, 85, 82, 78, 32, 119, 104, 105, 99, 104, 32, 105, 115, 32, 97, 32, 109, 117, 108, 116, 105, 112, 97, 114, 116, 32, 115, 116, 114, 105, 110, 103, 32, 115, 112, 97, 114, 97, 116, 101, 100, 32, 98, 121, 32, 99, 111, 108, 111, 110, 115, 46, 32, 73, 116, 32, 109, 117, 115, 116, 32, 115, 116, 97, 114, 116, 32, 119, 105, 116, 104, 32, 116, 104, 101, 32, 115, 116, 114, 105, 110, 103, 32, 34, 117, 114, 110, 34, 46, 32, 69, 97, 99, 104, 32, 115, 101, 103, 109, 101, 110, 116, 32, 109, 97, 121, 32, 111, 110, 108, 121, 32, 99, 111, 110, 116, 97, 105, 110, 32, 116, 104, 101, 32, 99, 104, 97, 114, 97, 99, 116, 101, 114, 115, 32, 97, 45, 122, 44, 32, 65, 45, 90, 44, 32, 48, 45, 57, 44, 32, 97, 110, 100, 32, 117, 110, 100, 101, 114, 115, 99, 111, 114, 101, 46>> (* 'The id should be a simple URN which is a multipart string sparated by colons. It must start with the string "urn". Each segment may only contain the characters a-z, A-Z, 0-9, and underscore.' *)
                         ELSE <<84, 104, 101, 32, 110, 97, 109, 101, 32, 115, 104, 111, 117, 108, 100, 32, 111, 110, 108, 121, 32, 99, 111, 110, 116, 97, 105, 110, 32, 116, 104, 101, 32, 99, 104, 97, 114, 97, 99, 116, 101, 114, 115, 32, 97, 45, 122, 44, 32, 65, 45, 90, 44, 32, 48, 45, 57, 44, 32, 97, 110, 100, 32, 117, 110, 100, 101, 114, 115, 99, 111, 114, 101, 46>> (* 'The name should only contain the characters a-z, A-Z, 0-9, and underscore.' *)))>>
    ELSE <<>>

\* if (lengthRange) ... issues.push(issue) (lines 225-238)
lengthIssues(jsonValue, jsonKey) ==
    IF getStringValueLengthRange(jsonKey) # Null
           /\ (\/ Len(jsonValue.text) < getStringValueLengthRange(jsonKey)[1]
               \/ Len(jsonValue.text) > getStringValueLengthRange(jsonKey)[2])
    THEN <<Issue(jsonValue.span.startIndex, jsonValue.span.endIndex,
                 <<73, 110, 118, 97, 108, 105, 100, 32, 118, 97, 108, 117, 101, 46, 32, 86, 97, 108, 105, 100, 32, 118, 97, 108, 117, 101, 32, 109, 117, 115, 116, 32, 104, 97, 115, 32, 108, 101, 110, 103, 116, 104, 32, 98, 101, 116, 119, 101, 101, 110, 32, 48, 32, 97, 110, 100, 32, 50, 53, 54, 46>> (* 'Invalid value. Valid value must has length between 0 and 256.' *))>>
    ELSE <<>>

\* getStringPatternIssues (lines 200-240)
getStringPatternIssues(document, jsonValue, jsonKey) ==
    patternIssues(jsonValue, jsonKey) \o lengthIssues(jsonValue, jsonKey)

\* The loop of getArrayElementNameIssues (lines 269-289) from element i on,
\* `names` and `issues` as the elements before have left them
RECURSIVE elementNameIssues(_, _, _, _)
elementNameIssues(elements, i, names, issues) ==
    IF i > Len(elements) THEN issues
    ELSE IF /\ elements[i].valueKind = "ObjectValue"
            /\ hasProperty(elements[i], <<110, 97, 109, 101>> (* 'name' *))
            /\ getPropertyValue(elements[i], <<110, 97, 109, 101>> (* 'name' *)).valueKind = "StringValue"
    THEN IF includes(names, getPropertyValue(elements[i], <<110, 97, 109, 101>> (* 'name' *)).text)
         THEN elementNameIssues(
                  elements, i + 1, names,
                  Append(issues,
                         Issue(getPropertyValue(elements[i], <<110, 97, 109, 101>> (* 'name' *)).span.startIndex,
                               getPropertyValue(elements[i], <<110, 97, 109, 101>> (* 'name' *)).span.endIndex,
                               getPropertyValue(elements[i], <<110, 97, 109, 101>> (* 'name' *)).text
                                   \o <<32, 104, 97, 115, 32, 97, 108, 114, 101, 97, 100, 121, 32, 98, 101, 101, 110, 32, 97, 115, 115, 105, 103, 110, 101, 100, 32, 116, 111, 32, 97, 110, 111, 116, 104, 101, 114, 32, 105, 116, 101, 109, 46>> (* ' has already been assigned to another item.' *))))
         ELSE elementNameIssues(elements, i + 1,
                                Append(names, getPropertyValue(elements[i], <<110, 97, 109, 101>> (* 'name' *)).text),
                                issues)
    ELSE elementNameIssues(elements, i + 1, names, issues)

\* getArrayElementNameIssues with a return after the first push of line 281
getArrayElementNameIssuesOnce(jsonValue, isInlineInterface) ==
    IF elementNameIssues(jsonValue.elements, 1, <<>>, <<>>) = <<>> THEN <<>>
    ELSE <<Head(elementNameIssues(jsonValue.elements, 1, <<>>, <<>>))>>

\* getArrayElementNameIssues (lines 263-291)
getArrayElementNameIssues(jsonValue, isInlineInterface) ==
    elementNameIssues(jsonValue.elements, 1, <<>>, <<>>)

\* The required properties that the object does not have (lines 574-586)
missingRequiredProperties(jsonValue, type, isInlineInterface) ==
    SelectSeq(getRequiredPropertiesFromType(type),
              LAMBDA requiredProperty :
                  /\ ~hasProperty(jsonValue, requiredProperty)
                  /\ ~(isInlineInterface /\ requiredProperty = <<64, 99, 111, 110, 116, 101, 120, 116>> (* '@context' *)))

\* The properties of the object that are required and hold an empty array
\* (lines 598-615)
emptyRequiredProperties(jsonValue, type) ==
    SelectSeq(jsonValue.propertyNames,
              LAMBDA name :
                  /\ includes(getRequiredPropertiesFromType(type), name)
                  /\ getPropertyValue(jsonValue, name).valueKind = "ArrayValue"
                  /\ getPropertyValue(jsonValue, name).elements = <<>>)

\* getMissingRequiredPropertiesIssues without lines 587-596: the issues of
\* the required properties that hold an empty array alone
getEmptyRequiredPropertiesIssues(jsonValue, type, isInlineInterface) ==
    [k \in 1..Len(emptyRequiredProperties(jsonValue, type)) |->
        Issue(getPropertyValue(jsonValue,
                               emptyRequiredProperties(jsonValue, type)[k]).span.startIndex,
              getPropertyValue(jsonValue,
                               emptyRequiredProperties(jsonValue, type)[k]).span.startIndex,
              emptyRequiredProperties(jsonValue, type)[k] \o <<32, 99, 97, 110, 110, 111, 116, 32, 98, 101, 32, 101, 109, 112, 116, 121, 46>> (* ' cannot be empty.' *))]

\* getMissingRequiredPropertiesIssues (lines 564-617)
getMissingRequiredPropertiesIssues(jsonValue, type, isInlineInterface) ==
    (IF missingRequiredProperties(jsonValue, type, isInlineInterface) # <<>>
     THEN <<Issue(jsonValue.span.startIndex, jsonValue.span.startIndex,
                  <<77, 105, 115, 115, 105, 110, 103, 32, 114, 101, 113, 117, 105, 114, 101, 100, 32, 112, 114, 111, 112, 101, 114, 116, 105, 101, 115, 58>> (* 'Missing required properties:' *) \o <<10>>
                      \o join(missingRequiredProperties(jsonValue, type, isInlineInterface),
                              <<10>>))>>
     ELSE <<>>)
    \o [k \in 1..Len(emptyRequiredProperties(jsonValue, type)) |->
           Issue(getPropertyValue(jsonValue,
                                  emptyRequiredProperties(jsonValue, type)[k]).span.startIndex,
                 getPropertyValue(jsonValue,
                                  emptyRequiredProperties(jsonValue, type)[k]).span.startIndex,
                 emptyRequiredProperties(jsonValue, type)[k] \o <<32, 99, 97, 110, 110, 111, 116, 32, 98, 101, 32, 101, 109, 112, 116, 121, 46>> (* ' cannot be empty.' *))]

\* issues = issues.concat(call(...)), the call having ended as `called`
concatIssues(issues, called) ==
    IF called.err THEN called ELSE Return(called.st, issues \o called.ret)

\* What getType returns: a type name or null, or an array of type names
StringType(value) == [array |-> FALSE, value |-> value]
ArrayType(value) == [array |-> TRUE, value |-> value]

\* !type
isNoType(type) == ~type.array /\ type.value \in {Null, <<>>}

\* The type names of a type: those of the array, or the one name
typesOf(type) == IF type.array THEN type.value ELSE <<type.value>>

\* What getInvalidTypeIssues returns: null, or issues
NoTypeIssues == [null |-> TRUE, issues |-> <<>>]
TypeIssues(issues) == [null |-> FALSE, issues |-> issues]

\* types = this._dtParser.getTypesFromId(dtContext, id), having ended as
\* `types`
typesOfId(types) ==
    IF types.err THEN types
    ELSE Return(types.st, [resolved |-> TRUE, types |-> types.ret.val])

\* let types ... types = [documentType] (lines 123-135 of getType and
\* 482-494 of getInvalidTypeIssues): the types valid at the key, unless the
\* context does not resolve the key
typesOfKey(st, dtContext, document, jsonKey) ==
    IF isKey(jsonKey)
    THEN IF getIdFromShortName(dtContext, jsonKey) \in {Null, <<>>}
         THEN Return(st, [resolved |-> FALSE, types |-> <<>>])
         ELSE typesOfId(getTypesFromId(st, dtContext,
                                       getIdFromShortName(dtContext, jsonKey), 1))
    ELSE Return(st, [resolved |-> TRUE,
                     types |-> <<IF isInterfaceFile(document) THEN ModelType.Interface
                                 ELSE ModelType.CapabilityModel>>])

\* if (types.length === 1) return types[0]; return null (lines 137-141)
typeOfTypes(types) ==
    IF types.err THEN types
    ELSE Return(types.st,
                IF types.ret.resolved /\ Len(types.ret.types) = 1
                THEN StringType(types.ret.types[1]) ELSE StringType(Null))

\* The object has a property '@type' that is a string or an array (lines
\* 110-121)
hasTypeProperty(jsonValue) ==
    /\ hasProperty(jsonValue, <<64, 116, 121, 112, 101>> (* '@type' *))
    /\ getPropertyValue(jsonValue, <<64, 116, 121, 112, 101>> (* '@type' *)).valueKind \in {"StringValue", "ArrayValue"}

\* getType (lines 104-142)
getType(st, dtContext, document, jsonValue, jsonKey) ==
    IF hasTypeProperty(jsonValue)
    THEN Return(st,
                IF getPropertyValue(jsonValue, <<64, 116, 121, 112, 101>> (* '@type' *)).valueKind = "StringValue"
                THEN StringType(getPropertyValue(jsonValue, <<64, 116, 121, 112, 101>> (* '@type' *)).text)
                ELSE ArrayType([k \in 1..Len(getPropertyValue(jsonValue, <<64, 116, 121, 112, 101>> (* '@type' *)).elements) |->
                                   getPropertyValue(jsonValue, <<64, 116, 121, 112, 101>> (* '@type' *)).elements[k].text]))
    ELSE typeOfTypes(typesOfKey(st, dtContext, document, jsonKey))

\* for (let index ...) of the key 'contents' (lines 511-523), from index i
\* on: the conflicts, and the required type found
RECURSIVE conflictIssues(_, _, _, _, _, _)
conflictIssues(type, types, span, i, requiredType, issues) ==
    IF i > Len(type)
    THEN IF requiredType = <<>>
         THEN Append(issues,
                     Issue(span.startIndex, span.endIndex,
                           <<77, 105, 115, 115, 105, 110, 103, 32, 114, 101, 113, 117, 105, 114, 101, 100, 32, 116, 121, 112, 101, 46, 32, 79, 110, 101, 32, 111, 102, 32, 116, 121, 112, 101, 115, 32, 98, 101, 108, 111, 119, 32, 105, 115, 32, 114, 101, 113, 117, 105, 114, 101, 100, 58>> (* 'Missing required type. One of types below is required:' *)
                               \o <<10>> \o join(types, <<44>> (* ',' *))))
         ELSE issues
    ELSE IF includes(types, type[i])
    THEN conflictIssues(type, types, span, i + 1, type[i],
                        IF requiredType # <<>>
                        THEN Append(issues,
                                    Issue(span.startIndex, span.endIndex,
                                          <<67, 111, 110, 102, 108, 105, 99, 116, 32, 116, 121, 112, 101, 58, 32>> (* 'Conflict type: ' *) \o requiredType \o <<32, 97, 110, 100, 32>> (* ' and ' *)
                                              \o type[i] \o <<46>> (* '.' *)))
                        ELSE issues)
    ELSE conflictIssues(type, types, span, i + 1, requiredType, issues)

\* The indices of the elements of the array of types that the second loop
\* (lines 536-554) reports
reportedTypes(type, types, jsonKey) ==
    SelectSeq([k \in 1..Len(type) |-> k],
              LAMBDA k : \/ ~includes(types, type[k]) /\ jsonKey # <<99, 111, 110, 116, 101, 110, 116, 115>> (* 'contents' *)
                         \/ \E l \in 1..(k - 1) : type[l] = type[k])

\* The issue of the second loop for the element at index k
typeElementIssue(type, types, jsonKey, typeValue, k) ==
    Issue(typeValue.elements[k].span.startIndex, typeValue.elements[k].span.endIndex,
          IF ~includes(types, type[k]) /\ jsonKey # <<99, 111, 110, 116, 101, 110, 116, 115>> (* 'contents' *)
          THEN <<73, 110, 118, 97, 108, 105, 100, 32, 116, 121, 112, 101, 46, 32, 86, 97, 108, 105, 100, 32, 116, 121, 112, 101, 115, 58>> (* 'Invalid type. Valid types:' *) \o <<10>> \o join(types, <<10>>)
          ELSE type[k] \o <<32, 104, 97, 115, 32, 97, 108, 114, 101, 97, 100, 121, 32, 98, 101, 101, 110, 32, 97, 100, 100, 101, 100, 32, 98, 101, 102, 111, 114, 101, 46>> (* ' has already been added before.' *))

\* The issues of an array of types (lines 504-559)
typeArrayIssues(type, types, jsonKey, typeValue) ==
    (IF jsonKey = <<99, 111, 110, 116, 101, 110, 116, 115>> (* 'contents' *)
     THEN conflictIssues(type, types, typeValue.span, 1, <<>>, <<>>) ELSE <<>>)
    \o [n \in 1..Len(reportedTypes(type, types, jsonKey)) |->
           typeElementIssue(type, types, jsonKey, typeValue,
                            reportedTypes(type, types, jsonKey)[n])]

\* if (typeof type === 'string' && ...) ... return null (lines 497-561),
\* getType having ended as `type`
invalidTypeOfType(types, type, jsonValue, jsonKey) ==
    IF type.err THEN type
    ELSE IF ~type.ret.array /\ type.ret.value # Null /\ ~includes(types, type.ret.value)
    THEN Return(type.st,
                TypeIssues(<<Issue(getPropertyValue(jsonValue, <<64, 116, 121, 112, 101>> (* '@type' *)).span.startIndex,
                                   getPropertyValue(jsonValue, <<64, 116, 121, 112, 101>> (* '@type' *)).span.endIndex,
                                   <<73, 110, 118, 97, 108, 105, 100, 32, 116, 121, 112, 101, 46, 32, 86, 97, 108, 105, 100, 32, 116, 121, 112, 101, 115, 58>> (* 'Invalid type. Valid types:' *) \o <<10>>
                                       \o join(types, <<10>>))>>))
    ELSE IF type.ret.array
            /\ typeArrayIssues(type.ret.value, types, jsonKey,
                               getPropertyValue(jsonValue, <<64, 116, 121, 112, 101>> (* '@type' *))) # <<>>
    THEN Return(type.st,
                TypeIssues(typeArrayIssues(type.ret.value, types, jsonKey,
                                           getPropertyValue(jsonValue, <<64, 116, 121, 112, 101>> (* '@type' *)))))
    ELSE Return(type.st, NoTypeIssues)

\* const type = this.getType(...) ... (lines 496-561), the types valid at
\* the key having been resolved as `types`
invalidTypeOfTypes(types, dtContext, document, jsonValue, jsonKey) ==
    IF types.err THEN types
    ELSE IF ~types.ret.resolved THEN Return(types.st, NoTypeIssues)
    ELSE invalidTypeOfType(types.ret.types,
                           getType(types.st, dtContext, document, jsonValue, jsonKey),
                           jsonValue, jsonKey)

\* getInvalidTypeIssues (lines 476-562)
getInvalidTypeIssues(st, dtContext, document, jsonValue, jsonKey) ==
    invalidTypeOfTypes(typesOfKey(st, dtContext, document, jsonKey),
                       dtContext, document, jsonValue, jsonKey)

\* The issues of getMissingRequiredPropertiesIssues for each of the types,
\* from type i on (lines 321-337)
RECURSIVE missingOfTypes(_, _, _, _)
missingOfTypes(jsonValue, types, isInlineInterface, i) ==
    IF i > Len(types) THEN <<>>
    ELSE getMissingRequiredPropertiesIssues(jsonValue, types[i], isInlineInterface)
             \o missingOfTypes(jsonValue, types, isInlineInterface, i + 1)

\* stringIssuesOfValues without the branch of line 176: the membership is
\* tested whatever the values are
stringIssuesOfValuesAsSet(values, caseInsensitive, document, jsonValue, jsonKey) ==
    IF values = <<>> THEN <<>>
    ELSE IF ~isValidStringValue(jsonValue.text, values, caseInsensitive)
    THEN <<Issue(jsonValue.span.startIndex, jsonValue.span.endIndex,
                 <<73, 110, 118, 97, 108, 105, 100, 32, 118, 97, 108, 117, 101, 46, 32, 86, 97, 108, 105, 100, 32, 118, 97, 108, 117, 101, 115, 58>> (* 'Invalid value. Valid values:' *) \o <<10>> \o join(values, <<10>>))>>
    ELSE <<>>

\* if (values.indexOf('XMLSchema#string') !== -1) ... return [] (lines
\* 176-197)
stringIssuesOfValues(values, caseInsensitive, document, jsonValue, jsonKey) ==
    IF values = <<>> THEN <<>>
    ELSE IF includes(values, <<88, 77, 76, 83, 99, 104, 101, 109, 97, 35, 115, 116, 114, 105, 110, 103>> (* 'XMLSchema#string' *))
    THEN getStringPatternIssues(document, jsonValue, jsonKey)
    ELSE IF ~isValidStringValue(jsonValue.text, values, caseInsensitive)
    THEN <<Issue(jsonValue.span.startIndex, jsonValue.span.endIndex,
                 <<73, 110, 118, 97, 108, 105, 100, 32, 118, 97, 108, 117, 101, 46, 32, 86, 97, 108, 105, 100, 32, 118, 97, 108, 117, 101, 115, 58>> (* 'Invalid value. Valid values:' *) \o <<10>> \o join(values, <<10>>))>>
    ELSE <<>>

\* getStringValuesFromShortName having ended as `values`
stringIssuesOfCalled(values, document, jsonValue, jsonKey) ==
    IF values.err THEN values
    ELSE Return(values.st,
                stringIssuesOfValues(values.ret.val, FALSE, document, jsonValue, jsonKey))

\* getStringIssues (lines 144-198)
getStringIssues(st, dtContext, document, jsonValue, isInlineInterface, jsonKey) ==
    IF ~isKey(jsonKey) THEN Return(st, <<>>)
    ELSE IF jsonKey = <<64, 99, 111, 110, 116, 101, 120, 116>> (* '@context' *)
    THEN Return(st,
                stringIssuesOfValues(
                    <<IF isInlineInterface \/ isInterfaceFile(document)
                      THEN ContextUris.interface ELSE ContextUris.capabilityModel,
                      ContextUris.iotModel>>,
                    TRUE, document, jsonValue, jsonKey))
    ELSE IF jsonKey = <<64, 105, 100>> (* '@id' *)
    THEN Return(st, stringIssuesOfValues(<<<<88, 77, 76, 83, 99, 104, 101, 109, 97, 35, 115, 116, 114, 105, 110, 103>> (* 'XMLSchema#string' *)>>, TRUE, document,
                                         jsonValue, jsonKey))
    ELSE stringIssuesOfCalled(getStringValuesFromShortName(st, dtContext, jsonKey, 1),
                              document, jsonValue, jsonKey)

RECURSIVE getJsonValueIssues(_, _, _, _, _, _)

\* childrenIssues without the branch of lines 351-352: the flag is set for
\* the schema of an object at 'implements' and is not handed further down
RECURSIVE childrenIssuesOfSchemaOnly(_, _, _, _, _, _, _)
childrenIssuesOfSchemaOnly(before, dtContext, document, jsonValue, isInlineInterface, jsonKey, i) ==
    IF before.err \/ i > Len(jsonValue.propertyNames) THEN before
    ELSE childrenIssuesOfSchemaOnly(
             concatIssues(
                 before.ret,
                 getJsonValueIssues(
                     before.st, dtContext, document,
                     getPropertyValue(jsonValue, jsonValue.propertyNames[i]),
                     jsonKey = <<105, 109, 112, 108, 101, 109, 101, 110, 116, 115>> (* 'implements' *) /\ jsonValue.propertyNames[i] = <<115, 99, 104, 101, 109, 97>> (* 'schema' *),
                     IF jsonKey = <<105, 109, 112, 108, 101, 109, 101, 110, 116, 115>> (* 'implements' *) /\ jsonValue.propertyNames[i] = <<115, 99, 104, 101, 109, 97>> (* 'schema' *)
                     THEN inlineInterfaceKeyName ELSE jsonValue.propertyNames[i])),
             dtContext, document, jsonValue, isInlineInterface, jsonKey, i + 1)

\* for (const propertyName of jsonValue.propertyNames) (lines 348-369),
\* from property i on
RECURSIVE childrenIssues(_, _, _, _, _, _, _)
childrenIssues(before, dtContext, document, jsonValue, isInlineInterface, jsonKey, i) ==
    IF before.err \/ i > Len(jsonValue.propertyNames) THEN before
    ELSE childrenIssues(
             concatIssues(
                 before.ret,
                 getJsonValueIssues(
                     before.st, dtContext, document,
                     getPropertyValue(jsonValue, jsonValue.propertyNames[i]),
                     \/ isInlineInterface
                     \/ jsonKey = <<105, 109, 112, 108, 101, 109, 101, 110, 116, 115>> (* 'implements' *) /\ jsonValue.propertyNames[i] = <<115, 99, 104, 101, 109, 97>> (* 'schema' *),
                     IF /\ ~isInlineInterface
                        /\ jsonKey = <<105, 109, 112, 108, 101, 109, 101, 110, 116, 115>> (* 'implements' *)
                        /\ jsonValue.propertyNames[i] = <<115, 99, 104, 101, 109, 97>> (* 'schema' *)
                     THEN inlineInterfaceKeyName ELSE jsonValue.propertyNames[i])),
             dtContext, document, jsonValue, isInlineInterface, jsonKey, i + 1)

\* objectIssuesOfType without the return of line 319: the loop over the
\* properties runs for an object without type as well
objectIssuesOfTypeDescending(type, dtContext, document, jsonValue, isInlineInterface, jsonKey) ==
    IF type.err THEN type
    ELSE IF isNoType(type.ret)
    THEN childrenIssues(
             Return(type.st, <<Issue(jsonValue.span.startIndex, jsonValue.span.endIndex,
                                     <<64, 116, 121, 112, 101, 32, 105, 115, 32, 109, 105, 115, 115, 105, 110, 103>> (* '@type is missing' *))>>),
             dtContext, document, jsonValue, isInlineInterface, jsonKey, 1)
    ELSE childrenIssues(
             concatIssues(missingOfTypes(jsonValue, typesOf(type.ret), isInlineInterface, 1),
                          getUnexpectedPropertiesIssues(type.st, dtContext, jsonValue,
                                                        typesOf(type.ret))),
             dtContext, document, jsonValue, isInlineInterface, jsonKey, 1)

\* if (!type) ... return issues (lines 312-371), getType having ended as
\* `type`
objectIssuesOfType(type, dtContext, document, jsonValue, isInlineInterface, jsonKey) ==
    IF type.err THEN type
    ELSE IF isNoType(type.ret)
    THEN Return(type.st, <<Issue(jsonValue.span.startIndex, jsonValue.span.endIndex,
                                 <<64, 116, 121, 112, 101, 32, 105, 115, 32, 109, 105, 115, 115, 105, 110, 103>> (* '@type is missing' *))>>)
    ELSE childrenIssues(
             concatIssues(missingOfTypes(jsonValue, typesOf(type.ret), isInlineInterface, 1),
                          getUnexpectedPropertiesIssues(type.st, dtContext, jsonValue,
                                                        typesOf(type.ret))),
             dtContext, document, jsonValue, isInlineInterface, jsonKey, 1)

\* if (typeIssues) return typeIssues ... (lines 307-371),
\* getInvalidTypeIssues having ended as `typeIssues`
objectIssuesOfTypeIssues(typeIssues, dtContext, document, jsonValue, isInlineInterface, jsonKey) ==
    IF typeIssues.err THEN typeIssues
    ELSE IF ~typeIssues.ret.null THEN Return(typeIssues.st, typeIssues.ret.issues)
    ELSE objectIssuesOfType(getType(typeIssues.st, dtContext, document, jsonValue, jsonKey),
                            dtContext, document, jsonValue, isInlineInterface, jsonKey)

\* getObjectIssues (lines 293-372)
getObjectIssues(st, dtContext, document, jsonValue, isInlineInterface, jsonKey) ==
    objectIssuesOfTypeIssues(
        getInvalidTypeIssues(st, dtContext, document, jsonValue, jsonKey),
        dtContext, document, jsonValue, isInlineInterface, jsonKey)

\* for (const elementValue of jsonValue.elements) (lines 250-259), from
\* element i on
RECURSIVE elementsIssues(_, _, _, _, _, _, _)
elementsIssues(before, dtContext, document, jsonValue, isInlineInterface, jsonKey, i) ==
    IF before.err \/ i > Len(jsonValue.elements) THEN before
    ELSE elementsIssues(
             concatIssues(before.ret,
                          getJsonValueIssues(before.st, dtContext, document,
                                             jsonValue.elements[i], isInlineInterface,
                                             jsonKey)),
             dtContext, document, jsonValue, isInlineInterface, jsonKey, i + 1)

\* getArrayIssues (lines 242-261)
getArrayIssues(st, dtContext, document, jsonValue, isInlineInterface, jsonKey) ==
    elementsIssues(Return(st, <<>>), dtContext, document, jsonValue, isInlineInterface,
                   jsonKey, 1)

\* issues = issues.concat(arrayIssues, arrayElementNameIssues) (lines
\* 85-90), getArrayIssues having ended as `arrayIssues`
arrayIssuesWithNames(arrayIssues, jsonValue, isInlineInterface) ==
    IF arrayIssues.err THEN arrayIssues
    ELSE Return(arrayIssues.st,
                arrayIssues.ret \o getArrayElementNameIssues(jsonValue, isInlineInterface))

\* getJsonValueIssues (lines 60-102)
getJsonValueIssues(st, dtContext, document, jsonValue, isInlineInterface, jsonKey) ==
    CASE jsonValue.valueKind = "ObjectValue" ->
             getObjectIssues(st, dtContext, document, jsonValue, isInlineInterface, jsonKey)
      [] jsonValue.valueKind = "ArrayValue" ->
             arrayIssuesWithNames(
                 getArrayIssues(st, dtContext, document, jsonValue, isInlineInterface,
                                jsonKey),
                 jsonValue, isInlineInterface)
      [] jsonValue.valueKind = "StringValue" ->
             getStringIssues(st, dtContext, document, jsonValue, isInlineInterface, jsonKey)
      [] OTHER -> Return(st, <<>>)

RECURSIVE getTypeIssues(_, _, _, _, _, _)

\* for (const element of elements) (lines 444-448), from element i on
RECURSIVE typeIssuesOfElements(_, _, _, _, _, _)
typeIssuesOfElements(before, dtContext, document, jsonValue, jsonKey, i) ==
    IF before.err \/ i > Len(jsonValue.elements) THEN before
    ELSE typeIssuesOfElements(
             concatIssues(before.ret,
                          getTypeIssues(before.st, dtContext, document,
                                        jsonValue.elements[i], jsonKey, TRUE)),
             dtContext, document, jsonValue, jsonKey, i + 1)

\* for (const key of propertyNames) (lines 450-455), from property i on
RECURSIVE typeIssuesOfProperties(_, _, _, _, _)
typeIssuesOfProperties(before, dtContext, document, jsonValue, i) ==
    IF before.err \/ i > Len(jsonValue.propertyNames) THEN before
    ELSE typeIssuesOfProperties(
             concatIssues(before.ret,
                          getTypeIssues(before.st, dtContext, document,
                                        getPropertyValue(jsonValue,
                                                         jsonValue.propertyNames[i]),
                                        jsonValue.propertyNames[i], FALSE)),
             dtContext, document, jsonValue, i + 1)

\* typeIssuesOfValue without the tests of lines 458-459: a number with a
\* fraction is an issue whatever the raw value types are
typeIssuesOfValueOfAnyType(rawValueTypes, dtContext, document, jsonValue, jsonKey) ==
    IF rawValueTypes.err THEN rawValueTypes
    ELSE CASE jsonValue.valueKind = "ArrayValue" ->
                  typeIssuesOfElements(Return(rawValueTypes.st, <<>>), dtContext, document,
                                       jsonValue, jsonKey, 1)
           [] jsonValue.valueKind = "ObjectValue" ->
                  typeIssuesOfProperties(Return(rawValueTypes.st, <<>>), dtContext, document,
                                         jsonValue, 1)
           [] /\ jsonValue.valueKind = "NumberValue"
              /\ ~isInteger(jsonValue.text) ->
                  Return(rawValueTypes.st,
                         <<Issue(jsonValue.span.startIndex, jsonValue.span.endIndex,
                                 <<73, 110, 118, 97, 108, 105, 100, 32, 118, 97, 108, 117, 101, 46, 32, 86, 97, 108, 105, 100, 32, 118, 97, 108, 117, 101, 32, 105, 115, 32>> (* 'Invalid value. Valid value is ' *)
                                     \o join(rawValueTypes.ret, <<44, 32>> (* ', ' *)) \o <<46>> (* '.' *))>>)
           [] OTHER -> Return(rawValueTypes.st, <<>>)

\* if (jsonValue.valueKind === ...) ... return issues (lines 443-473), the
\* raw value types of the key being `rawValueTypes`.  (validTypes, lines
\* 400-422, is read by nothing but the check that lines 430-438 comment
\* out.)
typeIssuesOfValue(rawValueTypes, dtContext, document, jsonValue, jsonKey) ==
    IF rawValueTypes.err THEN rawValueTypes
    ELSE CASE jsonValue.valueKind = "ArrayValue" ->
                  typeIssuesOfElements(Return(rawValueTypes.st, <<>>), dtContext, document,
                                       jsonValue, jsonKey, 1)
           [] jsonValue.valueKind = "ObjectValue" ->
                  typeIssuesOfProperties(Return(rawValueTypes.st, <<>>), dtContext, document,
                                         jsonValue, 1)
           [] /\ jsonValue.valueKind = "NumberValue"
              /\ ~includes(rawValueTypes.ret, <<102, 108, 111, 97, 116>> (* 'float' *))
              /\ ~includes(rawValueTypes.ret, <<100, 111, 117, 98, 108, 101>> (* 'double' *))
              /\ ~isInteger(jsonValue.text) ->
                  Return(rawValueTypes.st,
                         <<Issue(jsonValue.span.startIndex, jsonValue.span.endIndex,
                                 <<73, 110, 118, 97, 108, 105, 100, 32, 118, 97, 108, 117, 101, 46, 32, 86, 97, 108, 105, 100, 32, 118, 97, 108, 117, 101, 32, 105, 115, 32>> (* 'Invalid value. Valid value is ' *)
                                     \o join(rawValueTypes.ret, <<44, 32>> (* ', ' *)) \o <<46>> (* '.' *))>>)
           [] OTHER -> Return(rawValueTypes.st, <<>>)

\* rawValueTypes = this._dtParser.getValueTypesFromId(dtContext, id),
\* having ended as `valueTypes`
rawValueTypesOf(valueTypes) ==
    IF valueTypes.err THEN valueTypes ELSE Return(valueTypes.st, valueTypes.ret.val)

\* getTypeIssues (lines 374-474)
getTypeIssues(st, dtContext, document, jsonValue, jsonKey, isArrayElement) ==
    IF ~isKey(jsonKey)
    THEN typeIssuesOfValue(Return(st, <<<<111, 98, 106, 101, 99, 116>> (* 'object' *)>>), dtContext, document, jsonValue,
                           jsonKey)
    ELSE IF ~isArrayElement /\ isArrayFromShortName(jsonKey)
    THEN typeIssuesOfValue(Return(st, <<<<97, 114, 114, 97, 121>> (* 'array' *)>>), dtContext, document, jsonValue,
                           jsonKey)
    ELSE IF getIdFromShortName(dtContext, jsonKey) \in {Null, <<>>} THEN Return(st, <<>>)
    ELSE typeIssuesOfValue(
             rawValueTypesOf(getValueTypesFromId(st, dtContext,
                                                 getIdFromShortName(dtContext, jsonKey), 1)),
             dtContext, document, jsonValue, jsonKey)

\* issues = issues.concat(this.getTypeIssues(...)) (line 55),
\* getJsonValueIssues having ended as `issues`
issuesWithTypeIssues(issues, dtContext, document, jsonValue) ==
    IF issues.err THEN issues
    ELSE concatIssues(issues.ret,
                      getTypeIssues(issues.st, dtContext, document, jsonValue, Undefined,
                                    FALSE))

\* issuesOfJson without the test of line 46: the passes run on whatever
\* Json.parse gave
issuesOfJsonUntested(st, dtContext, document, json) ==
    issuesWithTypeIssues(
        getJsonValueIssues(st, dtContext, document,
                           IF json.ok THEN json.value
                           ELSE JsonValue("ObjectValue", Span(0, 0), <<>>, <<>>, <<>>),
                           FALSE, Undefined),
        dtContext, document,
        IF json.ok THEN json.value
        ELSE JsonValue("ObjectValue", Span(0, 0), <<>>, <<>>, <<>>))

\* if (!json || !json.value) ... return issues (lines 46-57), Json.parse
\* having given `json`
issuesOfJson(st, dtContext, document, json) ==
    IF ~json.ok THEN Return(st, <<>>)
    ELSE issuesWithTypeIssues(
             getJsonValueIssues(st, dtContext, document, json.value, FALSE, Undefined),
             dtContext, document, json.value)

\* getIssues (lines 40-58)
getIssues(st, dtContext, document) ==
    issuesOfJson(st, dtContext, document, jsonOf[document])

(***************************************************************************)
(* Inputs: two contexts over one vocabulary, the metamodel graphs, and the *)
(* object values handed to the diagnostics.                                *)
(***************************************************************************)
VOCAB == <<104, 116, 116, 112, 58, 47, 47, 97, 122, 117, 114, 101, 105, 111, 116, 46, 99, 111, 109, 47, 118, 49, 47, 99, 108, 97, 115, 115, 101, 115, 47>> (* 'http://azureiot.com/v1/classes/' *)

\* The context of an interface document.
InterfaceContext ==
    <<stringItem(AT_VOCAB, VOCAB),
      stringItem(<<84, 101, 108, 101, 109, 101, 116, 114, 121>> (* 'Telemetry' *), <<84, 101, 108, 101, 109, 101, 116, 114, 121>> (* 'Telemetry' *)),
      objectItem(<<110, 97, 109, 101>> (* 'name' *), <<110, 97, 109, 101>> (* 'name' *), Undefined),
      objectItem(<<115, 99, 104, 101, 109, 97>> (* 'schema' *), <<115, 99, 104, 101, 109, 97>> (* 'schema' *), Undefined),
      objectItem(<<100, 105, 115, 112, 108, 97, 121, 78, 97, 109, 101>> (* 'displayName' *), <<100, 105, 115, 112, 108, 97, 121, 78, 97, 109, 101>> (* 'displayName' *), AT_LANGUAGE),
      objectItem(<<117, 110, 105, 116>> (* 'unit' *), <<117, 110, 105, 116>> (* 'unit' *), Undefined),
      stringItem(<<73, 110, 116, 101, 114, 102, 97, 99, 101>> (* 'Interface' *), <<73, 110, 116, 101, 114, 102, 97, 99, 101>> (* 'Interface' *)),
      objectItem(<<99, 111, 110, 116, 101, 110, 116, 115>> (* 'contents' *), <<99, 111, 110, 116, 101, 110, 116, 115>> (* 'contents' *), Undefined),
      objectItem(<<101, 110, 117, 109, 86, 97, 108, 117, 101>> (* 'enumValue' *), <<101, 110, 117, 109, 86, 97, 108, 117, 101>> (* 'enumValue' *), Undefined),
      objectItem(<<114, 97, 116, 105, 111>> (* 'ratio' *), <<114, 97, 116, 105, 111>> (* 'ratio' *), Undefined)>>

\* The context of a capability model document: schema is the schema of an
\* interface instance, and there is no unit.
CapabilityModelContext ==
    <<stringItem(AT_VOCAB, VOCAB),
      stringItem(<<67, 97, 112, 97, 98, 105, 108, 105, 116, 121, 77, 111, 100, 101, 108>> (* 'CapabilityModel' *), <<67, 97, 112, 97, 98, 105, 108, 105, 116, 121, 77, 111, 100, 101, 108>> (* 'CapabilityModel' *)),
      objectItem(<<110, 97, 109, 101>> (* 'name' *), <<110, 97, 109, 101>> (* 'name' *), Undefined),
      objectItem(<<115, 99, 104, 101, 109, 97>> (* 'schema' *), <<73, 110, 116, 101, 114, 102, 97, 99, 101, 73, 110, 115, 116, 97, 110, 99, 101, 47, 115, 99, 104, 101, 109, 97>> (* 'InterfaceInstance/schema' *), Undefined),
      objectItem(<<100, 105, 115, 112, 108, 97, 121, 78, 97, 109, 101>> (* 'displayName' *), <<100, 105, 115, 112, 108, 97, 121, 78, 97, 109, 101>> (* 'displayName' *), AT_LANGUAGE),
      stringItem(<<73, 110, 116, 101, 114, 102, 97, 99, 101, 73, 110, 115, 116, 97, 110, 99, 101>> (* 'InterfaceInstance' *), <<73, 110, 116, 101, 114, 102, 97, 99, 101, 73, 110, 115, 116, 97, 110, 99, 101>> (* 'InterfaceInstance' *)),
      objectItem(<<105, 109, 112, 108, 101, 109, 101, 110, 116, 115>> (* 'implements' *), <<105, 109, 112, 108, 101, 109, 101, 110, 116, 115>> (* 'implements' *), Undefined)>>

Contexts == <<InterfaceContext, CapabilityModelContext>>

ENTITY == VOCAB \o <<69, 110, 116, 105, 116, 121>> (* 'Entity' *)
CONTENT == VOCAB \o <<67, 111, 110, 116, 101, 110, 116>> (* 'Content' *)
TELEMETRY == VOCAB \o <<84, 101, 108, 101, 109, 101, 116, 114, 121>> (* 'Telemetry' *)
SCHEMA_TYPE == VOCAB \o <<83, 99, 104, 101, 109, 97>> (* 'Schema' *)
ENUM == VOCAB \o <<69, 110, 117, 109>> (* 'Enum' *)
OBJECT == VOCAB \o <<79, 98, 106, 101, 99, 116>> (* 'Object' *)
UNIT_TYPE == VOCAB \o <<85, 110, 105, 116>> (* 'Unit' *)
NAME == VOCAB \o <<110, 97, 109, 101>> (* 'name' *)
SCHEMA == VOCAB \o <<115, 99, 104, 101, 109, 97>> (* 'schema' *)
INSTANCE_SCHEMA == VOCAB \o <<73, 110, 116, 101, 114, 102, 97, 99, 101, 73, 110, 115, 116, 97, 110, 99, 101, 47, 115, 99, 104, 101, 109, 97>> (* 'InterfaceInstance/schema' *)
DISPLAY_NAME == VOCAB \o <<100, 105, 115, 112, 108, 97, 121, 78, 97, 109, 101>> (* 'displayName' *)
UNIT == VOCAB \o <<117, 110, 105, 116>> (* 'unit' *)
CELSIUS == VOCAB \o <<99, 101, 108, 115, 105, 117, 115>> (* 'celsius' *)
KELVIN == VOCAB \o <<107, 101, 108, 118, 105, 110>> (* 'kelvin' *)
XS_STRING == <<104, 116, 116, 112, 58, 47, 47, 119, 119, 119, 46, 119, 51, 46, 111, 114, 103, 47, 50, 48, 48, 49, 47, 88, 77, 76, 83, 99, 104, 101, 109, 97, 35, 115, 116, 114, 105, 110, 103>> (* 'http://www.w3.org/2001/XMLSchema#string' *)
XS_INT == <<104, 116, 116, 112, 58, 47, 47, 119, 119, 119, 46, 119, 51, 46, 111, 114, 103, 47, 50, 48, 48, 49, 47, 88, 77, 76, 83, 99, 104, 101, 109, 97, 35, 105, 110, 116>> (* 'http://www.w3.org/2001/XMLSchema#int' *)
XS_FLOAT == <<104, 116, 116, 112, 58, 47, 47, 119, 119, 119, 46, 119, 51, 46, 111, 114, 103, 47, 50, 48, 48, 49, 47, 88, 77, 76, 83, 99, 104, 101, 109, 97, 35, 102, 108, 111, 97, 116>> (* 'http://www.w3.org/2001/XMLSchema#float' *)
INTERFACE == VOCAB \o <<73, 110, 116, 101, 114, 102, 97, 99, 101>> (* 'Interface' *)
CONTENTS == VOCAB \o <<99, 111, 110, 116, 101, 110, 116, 115>> (* 'contents' *)
ENUM_VALUE == VOCAB \o <<101, 110, 117, 109, 86, 97, 108, 117, 101>> (* 'enumValue' *)
RATIO == VOCAB \o <<114, 97, 116, 105, 111>> (* 'ratio' *)
INTEGER == VOCAB \o <<105, 110, 116, 101, 103, 101, 114>> (* 'integer' *)

\* GraphEdge (lines 251-255) between two GraphNode without Value
Edge(source, label, target) ==
    [SourceNode |-> [Id |-> source, Value |-> Undefined],
     TargetNode |-> [Id |-> target, Value |-> Undefined],
     Label |-> label]

\* An edge from a node to its comment, a node with a Value
Comment(source, target, value) ==
    [SourceNode |-> [Id |-> source, Value |-> Undefined],
     TargetNode |-> [Id |-> target, Value |-> value],
     Label |-> LABEL.COMMENT]

\* The edge lists this.graph.Edges is drawn from.
Graphs ==
    { \* a chain of classes with a property on each end
      <<Edge(SCHEMA, LABEL.DOMAIN_, ENTITY), Edge(TELEMETRY, LABEL.SUBCLASS, CONTENT),
        Edge(NAME, LABEL.DOMAIN_, TELEMETRY), Edge(CONTENT, LABEL.SUBCLASS, ENTITY)>>,
      \* a language container below a class
      <<Edge(DISPLAY_NAME, LABEL.SUBCLASS, CONTENT), Edge(CONTENT, LABEL.SUBCLASS, ENTITY),
        Edge(NAME, LABEL.DOMAIN_, ENTITY), Edge(DISPLAY_NAME, LABEL.DOMAIN_, ENTITY)>>,
      \* a property declared on a class and on its superclass
      <<Edge(NAME, LABEL.DOMAIN_, CONTENT), Edge(NAME, LABEL.DOMAIN_, ENTITY),
        Edge(CONTENT, LABEL.SUBCLASS, ENTITY), Edge(TELEMETRY, LABEL.SUBCLASS, CONTENT)>>,
      \* a range with subclasses, one of them stated twice
      <<Edge(SCHEMA, LABEL.RANGE, SCHEMA_TYPE), Edge(OBJECT, LABEL.SUBCLASS, SCHEMA_TYPE),
        Edge(ENUM, LABEL.SUBCLASS, SCHEMA_TYPE), Edge(ENUM, LABEL.SUBCLASS, SCHEMA_TYPE)>>,
      \* a range whose label holds a '/', a comment, and a comment without
      \* a Value
      <<Edge(SCHEMA, LABEL.RANGE, INSTANCE_SCHEMA), Edge(NAME, LABEL.RANGE, XS_STRING),
        Comment(NAME, <<95, 58, 98, 48>> (* '_:b0' *), <<84, 104, 101, 32, 110, 97, 109, 101, 46>> (* 'The name.' *)), Comment(SCHEMA, <<95, 58, 98, 49>> (* '_:b1' *), Undefined)>>,
      \* an enumeration reached by two range edges
      <<Edge(UNIT, LABEL.RANGE, UNIT_TYPE), Edge(KELVIN, LABEL.TYPE, UNIT_TYPE),
        Edge(CELSIUS, LABEL.TYPE, UNIT_TYPE), Edge(UNIT, LABEL.RANGE, UNIT_TYPE)>>,
      \* a class with typed properties
      <<Edge(SCHEMA, LABEL.DOMAIN_, TELEMETRY), Edge(NAME, LABEL.DOMAIN_, TELEMETRY),
        Edge(NAME, LABEL.RANGE, XS_STRING), Edge(SCHEMA, LABEL.RANGE, TELEMETRY)>>,
      \* two classes, each a subclass of the other
      <<Edge(CONTENT, LABEL.SUBCLASS, ENTITY), Edge(ENTITY, LABEL.SUBCLASS, CONTENT),
        Edge(NAME, LABEL.DOMAIN_, ENTITY)>>,
      \* a property that is its own range
      <<Edge(UNIT, LABEL.RANGE, UNIT)>>,
      \* a class with a property that only the context of an interface names
      <<Edge(UNIT, LABEL.DOMAIN_, TELEMETRY), Edge(NAME, LABEL.DOMAIN_, TELEMETRY)>> }

\* The ids of the nodes of an edge list.
NodeIds(edges) ==
    {edges[i].SourceNode.Id : i \in 1..Len(edges)}
        \cup {edges[i].TargetNode.Id : i \in 1..Len(edges)}

\* An object value with the given property names; the name token of
\* property i spans the ten characters from 10 * i on.
ObjectValue(propertyNames) ==
    [propertyNames |-> propertyNames,
     properties |-> [i \in 1..Len(propertyNames) |->
                        [name |-> [span |-> [startIndex |-> 10 * i,
                                             endIndex |-> 10 * i + 9]]]]]

ObjectValues ==
    {ObjectValue(<<<<64, 116, 121, 112, 101>> (* '@type' *), <<110, 97, 109, 101>> (* 'name' *), <<115, 99, 104, 101, 109, 97>> (* 'schema' *), <<99, 111, 108, 111, 114>> (* 'color' *)>>)}

\* The metamodel of the documents: an interface has contents, which are
\* telemetries; a telemetry has a name, a schema, a unit, an enumValue and
\* a ratio.
Metamodel ==
    <<Edge(CONTENTS, LABEL.DOMAIN_, INTERFACE), Edge(CONTENTS, LABEL.RANGE, TELEMETRY),
      Edge(NAME, LABEL.DOMAIN_, TELEMETRY), Edge(SCHEMA, LABEL.DOMAIN_, TELEMETRY),
      Edge(UNIT, LABEL.DOMAIN_, TELEMETRY), Edge(ENUM_VALUE, LABEL.DOMAIN_, TELEMETRY),
      Edge(RATIO, LABEL.DOMAIN_, TELEMETRY), Edge(NAME, LABEL.RANGE, XS_STRING),
      Edge(UNIT, LABEL.RANGE, UNIT_TYPE), Edge(CELSIUS, LABEL.TYPE, UNIT_TYPE),
      Edge(KELVIN, LABEL.TYPE, UNIT_TYPE), Edge(ENUM_VALUE, LABEL.RANGE, XS_INT),
      Edge(RATIO, LABEL.RANGE, XS_FLOAT), Edge(SCHEMA, LABEL.RANGE, SCHEMA_TYPE),
      Edge(ENUM, LABEL.SUBCLASS, SCHEMA_TYPE), Edge(OBJECT, LABEL.SUBCLASS, SCHEMA_TYPE),
      Edge(INTEGER, LABEL.TYPE, SCHEMA_TYPE)>>

\* The edge lists the graph of a parser that serves the diagnostics is
\* drawn from: the metamodel, and the metamodel with an interface type that
\* is its own subclass.
Metamodels == {Metamodel, Append(Metamodel, Edge(INTERFACE, LABEL.SUBCLASS, INTERFACE))}

TypeNames == {<<<<84, 101, 108, 101, 109, 101, 116, 114, 121>> (* 'Telemetry' *)>>, <<<<69, 110, 116, 105, 116, 121>> (* 'Entity' *), <<67, 111, 110, 116, 101, 110, 116>> (* 'Content' *)>>}

(***************************************************************************)
(* State: one parser (graph, cache), the module's LANGUAGE_CODES array,    *)
(* whether the last call ended in a RangeError, the contexts the parser    *)
(* has been called with, and the number of calls made.                     *)
(***************************************************************************)
VARIABLES graph, cache, languageCodes, thrown, contextsUsed, calls,
          context, document, issues

\* The state of the other components.  DigitalTwinDiagnostic: the
\* diagnostics of each document (_diagnosticCollection, by the path of the
\* document), the array _diagnostics, and for each document the document and
\* the issues of the last call of update that returned, if delete has not
\* been called since.
\* ScaffoldGenerator: the files and folders that exist, each with what it
\* holds; where scaffoldIoTProjectdFiles stands; and the number of its calls.
\* AZ3166Device: the promise of flushDeviceConfig or flushDeviceConfigUnix; the
\* locals of the call (flush: the platform, this.board, the command string,
\* where the executor stands, the four flags, where executeSetAzIoTHub stands,
\* the timer, the number of 'data' events); the serial port (whether it was
\* constructed, its path, whether it is open, the events with a handler, the
\* chunks port.write was called with, and those written and drained); and how
\* chooseCOM ended.
\* StreamAnalyticsJob: where deploy stands, with whether this.channel is set
\* and whether the query file exists; which of the three progress intervals
\* of deploy are set and not cleared; what has been appended to the channel;
\* and the call of callAction that deploy awaits (posting its request, or
\* polling the state of the job).
\* ProjectInitializer: the folder of projects (whether it exists, and the
\* files and directories in it, by name); where GenerateProjectFolder stands,
\* with the name it proposes and the name the input box returns.
VARIABLES diagnosticCollection, diagnostics, lastUpdate, fileSystem, scaffold,
          scaffolds, promise, flush, port, chosen, deploy, pending, channel,
          action, projects, initializer

others == <<diagnosticCollection, diagnostics, lastUpdate, fileSystem,
            scaffold, scaffolds, promise, flush, port, chosen, deploy,
            pending, channel, action, projects, initializer>>

\* The state of the other components where the parser is at work
InitOthers ==
    /\ diagnosticCollection = <<>>
    /\ diagnostics = <<>>
    /\ lastUpdate = <<>>
    /\ fileSystem = <<>>
    /\ scaffold = "idle"
    /\ scaffolds = 0
    /\ promise = "none"
    /\ flush = [plat |-> "none", board |-> FALSE, data |-> <<>>, pc |-> "idle", errorRejected |-> FALSE, commandExecuted |-> FALSE, gotData |-> FALSE, configMode |-> FALSE, send |-> "none", timer |-> "none", received |-> 0]
    /\ port = [constructed |-> FALSE, path |-> "", state |-> "none", handlers |-> {}, attempted |-> <<>>, written |-> <<>>]
    /\ chosen = "none"
    /\ deploy = [pc |-> "idle", hasChannel |-> FALSE, queryExists |-> FALSE]
    /\ pending = [stopPending |-> FALSE, deployPending |-> FALSE, startPending |-> FALSE]
    /\ channel = <<>>
    /\ action = [of |-> "none", state |-> "none"]
    /\ projects = [exists |-> FALSE, entries |-> <<>>]
    /\ initializer = [pc |-> "idle", candidateName |-> <<>>, projectName |-> <<>>]

\* What a step of DigitalTwinDiagnostic, which calls the parser, leaves as it is
besidesDigitalTwinDiagnostic == <<fileSystem, scaffold, scaffolds, promise,
                                  flush, port, chosen, deploy, pending,
                                  channel, action, projects, initializer>>

\* What a step of ScaffoldGenerator leaves as it is, and its state at the start
besidesScaffoldGenerator == <<graph, cache, languageCodes, thrown,
                              contextsUsed, calls, context, document, issues,
                              diagnosticCollection, diagnostics, lastUpdate,
                              promise, flush, port, chosen, deploy, pending,
                              channel, action, projects, initializer>>

InitBesidesScaffoldGenerator ==
    /\ graph = [Nodes |-> <<>>, Edges |-> Metamodel]
    /\ cache = EmptyCache
    /\ languageCodes = LANGUAGE_CODES
    /\ thrown = FALSE
    /\ contextsUsed = {}
    /\ calls = 0
    /\ context = 0
    /\ document = NoDocument
    /\ issues = <<>>
    /\ diagnosticCollection = <<>>
    /\ diagnostics = <<>>
    /\ lastUpdate = <<>>
    /\ promise = "none"
    /\ flush = [plat |-> "none", board |-> FALSE, data |-> <<>>, pc |-> "idle", errorRejected |-> FALSE, commandExecuted |-> FALSE, gotData |-> FALSE, configMode |-> FALSE, send |-> "none", timer |-> "none", received |-> 0]
    /\ port = [constructed |-> FALSE, path |-> "", state |-> "none", handlers |-> {}, attempted |-> <<>>, written |-> <<>>]
    /\ chosen = "none"
    /\ deploy = [pc |-> "idle", hasChannel |-> FALSE, queryExists |-> FALSE]
    /\ pending = [stopPending |-> FALSE, deployPending |-> FALSE, startPending |-> FALSE]
    /\ channel = <<>>
    /\ action = [of |-> "none", state |-> "none"]
    /\ projects = [exists |-> FALSE, entries |-> <<>>]
    /\ initializer = [pc |-> "idle", candidateName |-> <<>>, projectName |-> <<>>]

\* What a step of AZ3166Device leaves as it is, and its state at the start
besidesAZ3166Device == <<graph, cache, languageCodes, thrown, contextsUsed,
                         calls, context, document, issues,
                         diagnosticCollection, diagnostics, lastUpdate,
                         fileSystem, scaffold, scaffolds, deploy, pending,
                         channel, action, projects, initializer>>

InitBesidesAZ3166Device ==
    /\ graph = [Nodes |-> <<>>, Edges |-> Metamodel]
    /\ cache = EmptyCache
    /\ languageCodes = LANGUAGE_CODES
    /\ thrown = FALSE
    /\ contextsUsed = {}
    /\ calls = 0
    /\ context = 0
    /\ document = NoDocument
    /\ issues = <<>>
    /\ diagnosticCollection = <<>>
    /\ diagnostics = <<>>
    /\ lastUpdate = <<>>
    /\ fileSystem = <<>>
    /\ scaffold = "idle"
    /\ scaffolds = 0
    /\ deploy = [pc |-> "idle", hasChannel |-> FALSE, queryExists |-> FALSE]
    /\ pending = [stopPending |-> FALSE, deployPending |-> FALSE, startPending |-> FALSE]
    /\ channel = <<>>
    /\ action = [of |-> "none", state |-> "none"]
    /\ projects = [exists |-> FALSE, entries |-> <<>>]
    /\ initializer = [pc |-> "idle", candidateName |-> <<>>, projectName |-> <<>>]

\* What a step of StreamAnalyticsJob leaves as it is, and its state at the start
besidesStreamAnalyticsJob == <<graph, cache, languageCodes, thrown,
                               contextsUsed, calls, context, document, issues,
                               diagnosticCollection, diagnostics, lastUpdate,
                               fileSystem, scaffold, scaffolds, promise,
                               flush, port, chosen, projects, initializer>>

InitBesidesStreamAnalyticsJob ==
    /\ graph = [Nodes |-> <<>>, Edges |-> Metamodel]
    /\ cache = EmptyCache
    /\ languageCodes = LANGUAGE_CODES
    /\ thrown = FALSE
    /\ contextsUsed = {}
    /\ calls = 0
    /\ context = 0
    /\ document = NoDocument
    /\ issues = <<>>
    /\ diagnosticCollection = <<>>
    /\ diagnostics = <<>>
    /\ lastUpdate = <<>>
    /\ fileSystem = <<>>
    /\ scaffold = "idle"
    /\ scaffolds = 0
    /\ promise = "none"
    /\ flush = [plat |-> "none", board |-> FALSE, data |-> <<>>, pc |-> "idle", errorRejected |-> FALSE, commandExecuted |-> FALSE, gotData |-> FALSE, configMode |-> FALSE, send |-> "none", timer |-> "none", received |-> 0]
    /\ port = [constructed |-> FALSE, path |-> "", state |-> "none", handlers |-> {}, attempted |-> <<>>, written |-> <<>>]
    /\ chosen = "none"
    /\ projects = [exists |-> FALSE, entries |-> <<>>]
    /\ initializer = [pc |-> "idle", candidateName |-> <<>>, projectName |-> <<>>]

\* What a step of ProjectInitializer leaves as it is, and its state at the start
besidesProjectInitializer == <<graph, cache, languageCodes, thrown,
                               contextsUsed, calls, context, document, issues,
                               diagnosticCollection, diagnostics, lastUpdate,
                               fileSystem, scaffold, scaffolds, promise,
                               flush, port, chosen, deploy, pending, channel,
                               action>>

InitBesidesProjectInitializer ==
    /\ graph = [Nodes |-> <<>>, Edges |-> Metamodel]
    /\ cache = EmptyCache
    /\ languageCodes = LANGUAGE_CODES
    /\ thrown = FALSE
    /\ contextsUsed = {}
    /\ calls = 0
    /\ context = 0
    /\ document = NoDocument
    /\ issues = <<>>
    /\ diagnosticCollection = <<>>
    /\ diagnostics = <<>>
    /\ lastUpdate = <<>>
    /\ fileSystem = <<>>
    /\ scaffold = "idle"
    /\ scaffolds = 0
    /\ promise = "none"
    /\ flush = [plat |-> "none", board |-> FALSE, data |-> <<>>, pc |-> "idle", errorRejected |-> FALSE, commandExecuted |-> FALSE, gotData |-> FALSE, configMode |-> FALSE, send |-> "none", timer |-> "none", received |-> 0]
    /\ port = [constructed |-> FALSE, path |-> "", state |-> "none", handlers |-> {}, attempted |-> <<>>, written |-> <<>>]
    /\ chosen = "none"
    /\ deploy = [pc |-> "idle", hasChannel |-> FALSE, queryExists |-> FALSE]
    /\ pending = [stopPending |-> FALSE, deployPending |-> FALSE, startPending |-> FALSE]
    /\ channel = <<>>
    /\ action = [of |-> "none", state |-> "none"]

vars == <<graph, cache, languageCodes, thrown, contextsUsed, calls,
          context, document, issues, others>>

MaxCalls == 2

This == [graph |-> graph, cache |-> cache, LANGUAGE_CODES |-> languageCodes]

\* new DigitalTwinMetaModelParser(graph) (line 276)
Init ==
    /\ graph \in {[Nodes |-> <<>>, Edges |-> edges] : edges \in Graphs}
    /\ cache = EmptyCache
    /\ languageCodes = LANGUAGE_CODES
    /\ thrown = FALSE
    /\ contextsUsed = {}
    /\ calls = 0
    /\ context = 0
    /\ document = NoDocument
    /\ issues = <<>>
    /\ InitOthers

\* A call that ends as `result`, made with the contexts `with` (one, or
\* none for an operation that takes no context).
Called(with, result) ==
    /\ calls < MaxCalls
    /\ calls' = calls + 1
    /\ contextsUsed' = contextsUsed \cup with
    /\ cache' = result.st.cache
    /\ languageCodes' = result.st.LANGUAGE_CODES
    /\ thrown' = result.err
    /\ UNCHANGED <<graph, context, document, issues, others>>

QueryIds == NodeIds(graph.Edges)

GetCommentFromId ==
    \E id \in QueryIds : Called({}, getCommentFromId(This, id))

GetPropertyNameFromId ==
    \E c \in 1..Len(Contexts), id \in QueryIds :
        Called({c}, getPropertyNameFromId(This, Contexts[c], id))

GetShortNameFromLabel ==
    \E c \in 1..Len(Contexts), id \in QueryIds :
        Called({c}, getShortNameFromLabel(This, Contexts[c],
                                        getLabelFromId(Contexts[c], id)))

GetPropertiesFromId ==
    \E c \in 1..Len(Contexts), id \in QueryIds :
        Called({c}, getPropertiesFromId(This, Contexts[c], id, 1))

GetTypesFromId ==
    \E c \in 1..Len(Contexts), id \in QueryIds :
        Called({c}, getTypesFromId(This, Contexts[c], id, 1))

GetStringValuesFromId ==
    \E c \in 1..Len(Contexts), id \in QueryIds :
        Called({c}, getStringValuesFromId(This, Contexts[c], id, 1))

GetValueTypesFromId ==
    \E c \in 1..Len(Contexts), id \in QueryIds :
        Called({c}, getValueTypesFromId(This, Contexts[c], id, 1))

GetTypedPropertiesFromId ==
    \E c \in 1..Len(Contexts), id \in QueryIds :
        Called({c}, getTypedPropertiesFromId(This, Contexts[c], id, 1))

GetUnexpectedPropertiesIssues ==
    \E c \in 1..Len(Contexts), jsonValue \in ObjectValues, type \in TypeNames :
        Called({c}, getUnexpectedPropertiesIssues(This, Contexts[c], jsonValue, type))

\* getIssues(Contexts[c], doc), which ends as `result`: the state keeps the
\* context and the document of the call and the issues returned
Returned(c, doc, result) ==
    /\ calls < MaxCalls
    /\ calls' = calls + 1
    /\ contextsUsed' = contextsUsed \cup {c}
    /\ cache' = result.st.cache
    /\ languageCodes' = result.st.LANGUAGE_CODES
    /\ thrown' = result.err
    /\ context' = c
    /\ document' = doc
    /\ issues' = IF result.err THEN <<>> ELSE result.ret
    /\ UNCHANGED <<graph, others>>

GetIssues ==
    \E c \in 1..Len(Contexts), doc \in Documents :
        Returned(c, doc, getIssues(This, Contexts[c], doc))

Next ==
    \/ GetCommentFromId
    \/ GetPropertyNameFromId
    \/ GetShortNameFromLabel
    \/ GetPropertiesFromId
    \/ GetTypesFromId
    \/ GetStringValuesFromId
    \/ GetValueTypesFromId
    \/ GetTypedPropertiesFromId
    \/ GetUnexpectedPropertiesIssues

Spec == Init /\ [][Next]_vars

\* The diagnostics of documents, over a parser of the metamodel.
InitDiagnostic ==
    /\ graph \in {[Nodes |-> <<>>, Edges |-> edges] : edges \in Metamodels}
    /\ cache = EmptyCache
    /\ languageCodes = LANGUAGE_CODES
    /\ thrown = FALSE
    /\ contextsUsed = {}
    /\ calls = 0
    /\ context = 0
    /\ document = NoDocument
    /\ issues = <<>>
    /\ InitOthers

NextDiagnostic == GetIssues

SpecDiagnostic == InitDiagnostic /\ [][NextDiagnostic]_vars

(***************************************************************************)
(* The parser over every order of the edge list.                           *)
(***************************************************************************)
\* The edge lists that hold the edges of `edges` in some order.
EdgeOrders(edges) ==
    {[i \in 1..Len(edges) |-> edges[f[i]]] : f \in Permutations(1..Len(edges))}

\* The order in which Graphs lists the edges of `edges`.
ListedOrder(edges) == CHOOSE listed \in Graphs : edges \in EdgeOrders(listed)

MaxEdgeOrderCalls == 1

InitEdgeOrders ==
    /\ graph \in {[Nodes |-> <<>>, Edges |-> edges] :
                     edges \in UNION {EdgeOrders(listed) : listed \in Graphs}}
    /\ cache = EmptyCache
    /\ languageCodes = LANGUAGE_CODES
    /\ thrown = FALSE
    /\ contextsUsed = {}
    /\ calls = 0
    /\ context = 0
    /\ document = NoDocument
    /\ issues = <<>>
    /\ InitOthers

NextEdgeOrders ==
    \/ calls < MaxEdgeOrderCalls /\ GetCommentFromId
    \/ calls < MaxEdgeOrderCalls /\ GetPropertyNameFromId
    \/ calls < MaxEdgeOrderCalls /\ GetShortNameFromLabel
    \/ calls < MaxEdgeOrderCalls /\ GetPropertiesFromId
    \/ calls < MaxEdgeOrderCalls /\ GetTypesFromId
    \/ calls < MaxEdgeOrderCalls /\ GetStringValuesFromId
    \/ calls < MaxEdgeOrderCalls /\ GetValueTypesFromId
    \/ calls < MaxEdgeOrderCalls /\ GetTypedPropertiesFromId
    \/ calls < MaxEdgeOrderCalls /\ GetUnexpectedPropertiesIssues

SpecEdgeOrders == InitEdgeOrders /\ [][NextEdgeOrders]_vars

(***************************************************************************)
(* Properties.                                                             *)
(***************************************************************************)
\* array[1] < array[2] < ... in the order of Array.prototype.sort
isSortedUnique(array) ==
    \A i \in 1..(Len(array) - 1) : strLess(array[i], array[i + 1])

\* A call on this parser ended as `here`, and as `listed` on a parser that
\* differs in the order of its edge list only: both threw, or both returned
\* the same sorted and duplicate-free array and left the same cache.
sameSortedUnique(here, listed) ==
    /\ here.err = listed.err
    /\ ~here.err =>
        /\ isSortedUnique(here.ret.val)
        /\ here.ret = listed.ret
        /\ here.st.cache = listed.st.cache

ThisListed == [This EXCEPT !.graph.Edges = ListedOrder(graph.Edges)]

\* C1: whatever the order of the edge list, and whatever has been cached,
\* getPropertiesFromId and getTypesFromId return for every context and id
\* a duplicate-free array in ascending order of code units, the same one
\* and with the same cache as with the edges in the listed order; and every
\* array held in cache.PropertiesFromId and cache.TypesFromId is
\* duplicate-free and ascending.
C1_SortedUniqueInEveryEdgeOrder ==
    /\ \A c \in 1..Len(Contexts), id \in QueryIds :
        /\ sameSortedUnique(getPropertiesFromId(This, Contexts[c], id, 1),
                            getPropertiesFromId(ThisListed, Contexts[c], id, 1))
        /\ sameSortedUnique(getTypesFromId(This, Contexts[c], id, 1),
                            getTypesFromId(ThisListed, Contexts[c], id, 1))
    /\ \A id \in DOMAIN cache.PropertiesFromId :
        isSortedUnique(cache.PropertiesFromId[id].val)
    /\ \A id \in DOMAIN cache.TypesFromId : isSortedUnique(cache.TypesFromId[id].val)

\* C1 witness: with the edges in another order than listed, a call has
\* cached two properties that the loop collected in descending order, or
\* two types collected in descending order.
C1_Witness ==
    /\ graph.Edges # ListedOrder(graph.Edges)
    /\ \/ /\ TELEMETRY \in DOMAIN cache.PropertiesFromId
          /\ cache.PropertiesFromId[TELEMETRY].val = <<<<110, 97, 109, 101>> (* 'name' *), <<115, 99, 104, 101, 109, 97>> (* 'schema' *)>>
          /\ graph.Edges[1] = Edge(TELEMETRY, LABEL.SUBCLASS, CONTENT)
       \/ /\ SCHEMA \in DOMAIN cache.TypesFromId
          /\ cache.TypesFromId[SCHEMA].val = <<<<69, 110, 117, 109>> (* 'Enum' *), <<79, 98, 106, 101, 99, 116>> (* 'Object' *)>>
          /\ graph.Edges[1] = Edge(OBJECT, LABEL.SUBCLASS, SCHEMA_TYPE)

\* C2: every array that getStringValuesFromId has cached for an id is
\* sorted and duplicate-free, and another call with the same id, under
\* either context, returns an array with the same elements.
C2_StringValuesSortedUnique ==
    \A id \in DOMAIN cache.StringValuesFromId :
        /\ isSortedUnique(cache.StringValuesFromId[id].val)
        /\ \A c \in 1..Len(Contexts) :
            getStringValuesFromId(This, Contexts[c], id, 1).ret.val
                = cache.StringValuesFromId[id].val

\* C2 witness: the values of unit, whose range is stated twice, are cached:
\* kelvin before celsius, and each of them twice.
C2_Witness ==
    /\ UNIT \in DOMAIN cache.StringValuesFromId
    /\ cache.StringValuesFromId[UNIT].val
           = <<<<107, 101, 108, 118, 105, 110>> (* 'kelvin' *), <<99, 101, 108, 115, 105, 117, 115>> (* 'celsius' *), <<107, 101, 108, 118, 105, 110>> (* 'kelvin' *), <<99, 101, 108, 115, 105, 117, 115>> (* 'celsius' *)>>

\* C3: no call ends in a RangeError, the engine's end of a recursion that
\* does not end by itself.
C3_EveryCallReturns == ~thrown

\* C3 witness: with Content and Entity each a subclass of the other, a call
\* has thrown and left the cache as it was.
C3_Witness ==
    /\ thrown
    /\ Edge(CONTENT, LABEL.SUBCLASS, ENTITY) = graph.Edges[1]
    /\ Edge(ENTITY, LABEL.SUBCLASS, CONTENT) = graph.Edges[2]
    /\ cache.PropertiesFromId = <<>>

\* The elements of an array.
elements(array) == {array[i] : i \in 1..Len(array)}

\* The ids of the properties with a domain edge to id.
domainProperties(id) ==
    {graph.Edges[i].SourceNode.Id : i \in {j \in 1..Len(graph.Edges) :
        graph.Edges[j].TargetNode.Id = id /\ graph.Edges[j].Label = LABEL.DOMAIN_}}

\* The graph has an edge `sub` subClassOf `super`.
isSubClassOf(sub, super) ==
    \E i \in 1..Len(graph.Edges) : graph.Edges[i] = Edge(sub, LABEL.SUBCLASS, super)

\* getPropertiesFromId ended as `ofA` for A and as `ofB` for B: if the call
\* for A returned then so did the call for B, the properties of A hold
\* those of B, and those hold the names by which the parser that the calls
\* left knows the properties `ofC`.
subClassSupersets(ofA, ofB, dtContext, ofC) ==
    ~ofA.err =>
        /\ ~ofB.err
        /\ elements(ofB.ret.val) \subseteq elements(ofA.ret.val)
        /\ \A property \in ofC :
            getPropertyNameFromId(ofB.st, dtContext, property).ret
                \in elements(ofB.ret.val)

\* The same with the call for B made first.
superSubClassSupersets(ofB, ofA, dtContext, ofC) ==
    subClassSupersets(ofA, ofB, dtContext, ofC)

\* Subclass transitivity for the ids A, B, C under context c, with the two
\* calls made in either order.
SubclassTransitivity(c, A, B, C) ==
    /\ subClassSupersets(
           getPropertiesFromId(This, Contexts[c], A, 1),
           getPropertiesFromId(getPropertiesFromId(This, Contexts[c], A, 1).st,
                               Contexts[c], B, 1),
           Contexts[c], domainProperties(C))
    /\ superSubClassSupersets(
           getPropertiesFromId(This, Contexts[c], B, 1),
           getPropertiesFromId(getPropertiesFromId(This, Contexts[c], B, 1).st,
                               Contexts[c], A, 1),
           Contexts[c], domainProperties(C))

labels(results) == [k \in 1..Len(results) |-> results[k].label]

\* C5: for every id that is a language container of a context, the array
\* that getPropertiesFromId has cached is the language-code list itself,
\* and the array that getTypedPropertiesFromId has cached has the labels
\* that getPropertiesFromId returns, as many and in the same order, each
\* with required = false and type = 'string'.
C5_InternationalizationShortcut ==
    \A c \in 1..Len(Contexts), id \in QueryIds :
        isInternationalizationFromId(Contexts[c], id) =>
            /\ id \in DOMAIN cache.PropertiesFromId =>
                cache.PropertiesFromId[id].val = languageCodes
            /\ id \in DOMAIN cache.TypedPropertiesFromId =>
                /\ labels(cache.TypedPropertiesFromId[id].val)
                       = getPropertiesFromId(This, Contexts[c], id, 1).ret.val
                /\ \A k \in 1..Len(cache.TypedPropertiesFromId[id].val) :
                    /\ ~cache.TypedPropertiesFromId[id].val[k].required
                    /\ cache.TypedPropertiesFromId[id].val[k].type = <<115, 116, 114, 105, 110, 103>> (* 'string' *)

\* C5 witness: both arrays are cached for displayName; the properties are
\* the 228 different codes of the list, the typed properties its 239
\* entries.
C5_Witness ==
    /\ isInternationalizationFromId(InterfaceContext, DISPLAY_NAME)
    /\ DISPLAY_NAME \in DOMAIN cache.PropertiesFromId
    /\ DISPLAY_NAME \in DOMAIN cache.TypedPropertiesFromId
    /\ Len(cache.PropertiesFromId[DISPLAY_NAME].val) = 228
    /\ Len(cache.TypedPropertiesFromId[DISPLAY_NAME].val) = 239
    /\ Len(languageCodes) = 239

\* A first call ended as `first` and the second call, on the parser the
\* first left, as `second`: if the first returned an array, the second
\* returned the same array object.
sameArray(first, second) ==
    ~first.err =>
        /\ ~second.err
        /\ second.ret.ref = first.ret.ref
        /\ first.ret.ref[1] # ""

\* C6: whatever has been cached, for each of the five operations, every
\* context and every id, a first call and a second call with the same id
\* return the same array object.
C6_SecondCallSameArray ==
    \A c \in 1..Len(Contexts), id \in QueryIds :
        /\ sameArray(getPropertiesFromId(This, Contexts[c], id, 1),
                     getPropertiesFromId(
                         getPropertiesFromId(This, Contexts[c], id, 1).st,
                         Contexts[c], id, 1))
        /\ sameArray(getTypesFromId(This, Contexts[c], id, 1),
                     getTypesFromId(
                         getTypesFromId(This, Contexts[c], id, 1).st,
                         Contexts[c], id, 1))
        /\ sameArray(getValueTypesFromId(This, Contexts[c], id, 1),
                     getValueTypesFromId(
                         getValueTypesFromId(This, Contexts[c], id, 1).st,
                         Contexts[c], id, 1))
        /\ sameArray(getTypedPropertiesFromId(This, Contexts[c], id, 1),
                     getTypedPropertiesFromId(
                         getTypedPropertiesFromId(This, Contexts[c], id, 1).st,
                         Contexts[c], id, 1))
        /\ sameArray(getStringValuesFromId(This, Contexts[c], id, 1),
                     getStringValuesFromId(
                         getStringValuesFromId(This, Contexts[c], id, 1).st,
                         Contexts[c], id, 1))

\* C6 witness: getStringValuesFromId has been called for Telemetry, which
\* has properties and no values, and has cached an empty array for it.
C6_Witness ==
    /\ hasPropertyFromId(This, TELEMETRY)
    /\ TELEMETRY \in DOMAIN cache.StringValuesFromId
    /\ cache.StringValuesFromId[TELEMETRY].val = <<>>
    /\ calls = 1

\* C7: in every step, every entry of every table of the cache stays: the
\* same key holds the same value, for an array the same object with the
\* same elements; and LANGUAGE_CODES holds the same elements.
C7_CacheEntriesStay ==
    [][/\ \A table \in DOMAIN cache : \A key \in DOMAIN cache[table] :
            /\ key \in DOMAIN cache'[table]
            /\ cache'[table][key] = cache[table][key]
       /\ languageCodes' = languageCodes]_vars

\* C7 witness: after two calls the cache holds arrays of properties, typed
\* properties, string values and value types, the language codes among the
\* properties.
C7_Witness ==
    /\ calls = 2
    /\ cache.PropertiesFromId # <<>>
    /\ cache.TypedPropertiesFromId # <<>>
    /\ cache.StringValuesFromId # <<>>
    /\ cache.ValueTypesFromId # <<>>
    /\ \E id \in DOMAIN cache.PropertiesFromId :
        cache.PropertiesFromId[id].val = SortedUniqLanguageCodes

\* The parser as constructed: the same graph and nothing cached.
Fresh == [This EXCEPT !.cache = EmptyCache]

\* A call on this parser ended as `here`, and as `fresh` on a parser as
\* constructed with the same graph: both threw, or both returned the same
\* value, for an array the same elements.
sameAsFresh(here, fresh) ==
    /\ here.err = fresh.err
    /\ ~here.err => here.ret = fresh.ret

sameElementsAsFresh(here, fresh) ==
    /\ here.err = fresh.err
    /\ ~here.err => here.ret.val = fresh.ret.val

\* C8: whatever calls have been made, with whatever contexts, each of the
\* six operations returns for every context and key what it returns on a
\* parser as constructed.
C8_ScopedToContext ==
    \A c \in 1..Len(Contexts), id \in QueryIds :
        /\ sameAsFresh(getPropertyNameFromId(This, Contexts[c], id),
                       getPropertyNameFromId(Fresh, Contexts[c], id))
        /\ sameAsFresh(getShortNameFromLabel(This, Contexts[c],
                                             getLabelFromId(Contexts[c], id)),
                       getShortNameFromLabel(Fresh, Contexts[c],
                                             getLabelFromId(Contexts[c], id)))
        /\ sameElementsAsFresh(getPropertiesFromId(This, Contexts[c], id, 1),
                               getPropertiesFromId(Fresh, Contexts[c], id, 1))
        /\ sameElementsAsFresh(getTypesFromId(This, Contexts[c], id, 1),
                               getTypesFromId(Fresh, Contexts[c], id, 1))
        /\ sameElementsAsFresh(getStringValuesFromId(This, Contexts[c], id, 1),
                               getStringValuesFromId(Fresh, Contexts[c], id, 1))
        /\ sameElementsAsFresh(getTypedPropertiesFromId(This, Contexts[c], id, 1),
                               getTypedPropertiesFromId(Fresh, Contexts[c], id, 1))

\* C8 witness: called with the interface context alone, the parser has
\* cached the name schema for the id of schema, which no entry of the
\* capability model context resolves to.
C8_Witness ==
    /\ contextsUsed = {1}
    /\ SCHEMA \in DOMAIN cache.PropertyNameFromId
    /\ cache.PropertyNameFromId[SCHEMA] = <<115, 99, 104, 101, 109, 97>> (* 'schema' *)
    /\ propertyNameAt(CapabilityModelContext, SCHEMA) = 0

\* getPropertyNameFromId returned `name` for id: a key of the context that
\* getIdFromShortName resolves to id if the context has an entry that
\* resolves to id, and id if it has none.
reverseOfGetIdFromShortName(name, dtContext, id) ==
    IF \E i \in 1..Len(dtContext) : vocabOf(dtContext) \o dtContext[i].item.text = id
    THEN /\ hasOwnProperty(dtContext, name)
         /\ getIdFromShortName(dtContext, name) = id
    ELSE name = id

\* C9: whatever has been cached, for every context and id
\* getPropertyNameFromId returns a key that getIdFromShortName resolves to
\* the id, or the id when the context has no such key.
C9_ReverseOfGetIdFromShortName ==
    \A c \in 1..Len(Contexts), id \in QueryIds :
        reverseOfGetIdFromShortName(getPropertyNameFromId(This, Contexts[c], id).ret,
                                    Contexts[c], id)

\* C9 witness: called with the capability model context alone, the parser
\* has cached the name schema for the id of the schema of an interface
\* instance, which the interface context has no entry for.
C9_Witness ==
    /\ contextsUsed = {2}
    /\ INSTANCE_SCHEMA \in DOMAIN cache.PropertyNameFromId
    /\ cache.PropertyNameFromId[INSTANCE_SCHEMA] = <<115, 99, 104, 101, 109, 97>> (* 'schema' *)
    /\ getIdFromShortName(InterfaceContext, <<115, 99, 104, 101, 109, 97>> (* 'schema' *)) # INSTANCE_SCHEMA

\* The ids whose types getTypesFromId collects for id: the targets of the
\* range edges that leave id and the sources of the subClassOf edges to id.
typeChildren(id) ==
    {graph.Edges[i].TargetNode.Id : i \in {j \in 1..Len(graph.Edges) :
        graph.Edges[j].SourceNode.Id = id /\ graph.Edges[j].Label = LABEL.RANGE}}
    \cup
    {graph.Edges[i].SourceNode.Id : i \in {j \in 1..Len(graph.Edges) :
        graph.Edges[j].TargetNode.Id = id /\ graph.Edges[j].Label = LABEL.SUBCLASS}}

\* The types that the parser `st` returns for the ids `children`, together.
typesOfChildren(st, dtContext, children) ==
    UNION {elements(getTypesFromId(st, dtContext, child, 1).ret.val) : child \in children}

\* The fallback: the short name of the label if it has one, as the only
\* element.
fallbackTypes(shortName) ==
    IF shortName.ret \in {Null, <<>>} THEN <<>> ELSE <<shortName.ret>>

\* getTypesFromId returned `types` for id: the types of its children if
\* `fallback` is false, the fallback if it is true.
unionOrFallback(types, dtContext, id, fallback) ==
    IF fallback
    THEN types.ret.val
             = fallbackTypes(getShortNameFromLabel(types.st, dtContext,
                                                   getLabelFromId(dtContext, id)))
    ELSE elements(types.ret.val) = typesOfChildren(types.st, dtContext, typeChildren(id))

\* C10 as stated: a call of getTypesFromId that returns, returns the types
\* of the children of the id together; it returns the fallback exactly when
\* the id has no children.
C10_TypesUnionOrFallback ==
    \A c \in 1..Len(Contexts), id \in QueryIds :
        ~getTypesFromId(This, Contexts[c], id, 1).err =>
            unionOrFallback(getTypesFromId(This, Contexts[c], id, 1), Contexts[c], id,
                            typeChildren(id) = {})

\* C10 amended: it returns the fallback exactly when the children of the id
\* have no types: when it has no children, and also when it has children
\* and getTypesFromId returns an empty array for each of them.
C10_TypesUnionOrFallbackAmended ==
    \A c \in 1..Len(Contexts), id \in QueryIds :
        ~getTypesFromId(This, Contexts[c], id, 1).err =>
            unionOrFallback(getTypesFromId(This, Contexts[c], id, 1), Contexts[c], id,
                            typesOfChildren(getTypesFromId(This, Contexts[c], id, 1).st,
                                            Contexts[c], typeChildren(id)) = {})

\* C10 witness: the range of schema is the schema of an interface instance,
\* for which an empty array of types is cached, and the types cached for
\* schema are its own short name.
C10_Witness ==
    /\ INSTANCE_SCHEMA \in typeChildren(SCHEMA)
    /\ INSTANCE_SCHEMA \in DOMAIN cache.TypesFromId
    /\ cache.TypesFromId[INSTANCE_SCHEMA].val = <<>>
    /\ SCHEMA \in DOMAIN cache.TypesFromId
    /\ cache.TypesFromId[SCHEMA].val = <<<<115, 99, 104, 101, 109, 97>> (* 'schema' *)>>

\* The ids whose values getStringValuesFromId collects for id: the targets
\* of the range edges that leave id, and the sources of the subClassOf and
\* of the type edges to id.
stringValueChildren(st, id) ==
    {st.graph.Edges[i].TargetNode.Id : i \in {j \in 1..Len(st.graph.Edges) :
        st.graph.Edges[j].SourceNode.Id = id /\ st.graph.Edges[j].Label = LABEL.RANGE}}
    \cup
    {st.graph.Edges[i].SourceNode.Id : i \in {j \in 1..Len(st.graph.Edges) :
        /\ st.graph.Edges[j].TargetNode.Id = id
        /\ st.graph.Edges[j].Label \in {LABEL.SUBCLASS, LABEL.TYPE}}}

\* The values that the parser `st` returns for the ids `children`, together.
valuesOfChildren(st, dtContext, children) ==
    UNION {elements(getStringValuesFromId(st, dtContext, child, 1).ret.val) :
               child \in children}

\* getStringValuesFromId returned `values` for id, `union` being the values
\* of its children: the union if there is one, else nothing for an id with
\* a domain edge to it, else its short name alone.
unionOrShortName(values, union, dtContext, id) ==
    IF union # {} THEN elements(values.ret.val) = union
    ELSE IF hasPropertyFromId(values.st, id) THEN values.ret.val = <<>>
    ELSE values.ret.val = <<getShortNameFromId(dtContext, id)>>

\* A call of getStringValuesFromId on this parser ended as `here`, and as
\* `listed` with the edges in the listed order: both threw, or both
\* returned the same values; and what `here` returned is the union of the
\* values of the children, or the fallback.
stringValuesAsStated(here, listed, dtContext, id) ==
    /\ here.err = listed.err
    /\ ~here.err =>
        /\ elements(here.ret.val) = elements(listed.ret.val)
        /\ unionOrShortName(here,
                            valuesOfChildren(here.st, dtContext,
                                             stringValueChildren(here.st, id)),
                            dtContext, id)

\* C11: in every order of the edge list and whatever has been cached, a
\* call getStringValuesFromId(ctx, id) that returns, returns the values of
\* the range targets, subclasses and instances of id together; if there
\* are none it returns [] for an id with a domain edge to it and [short
\* name of id under ctx] otherwise; and it returns the same values as with
\* the edges in the listed order.
C11_StringValuesUnionOrShortName ==
    \A c \in 1..Len(Contexts), id \in QueryIds :
        stringValuesAsStated(getStringValuesFromId(This, Contexts[c], id, 1),
                             getStringValuesFromId(ThisListed, Contexts[c], id, 1),
                             Contexts[c], id)

\* C11 witness: the values of the schema of an interface instance were
\* cached under the context of a capability model, where its short name is
\* schema, and a call under the context of an interface returns them, where
\* its short name is InterfaceInstance/schema.
C11_Witness ==
    /\ contextsUsed = {2}
    /\ INSTANCE_SCHEMA \in DOMAIN cache.StringValuesFromId
    /\ cache.StringValuesFromId[INSTANCE_SCHEMA].val = <<<<115, 99, 104, 101, 109, 97>> (* 'schema' *)>>
    /\ getShortNameFromId(InterfaceContext, INSTANCE_SCHEMA) = <<73, 110, 116, 101, 114, 102, 97, 99, 101, 73, 110, 115, 116, 97, 110, 99, 101, 47, 115, 99, 104, 101, 109, 97>> (* 'InterfaceInstance/schema' *)
    /\ getStringValuesFromId(This, InterfaceContext, INSTANCE_SCHEMA, 1).ret.val
           = <<<<115, 99, 104, 101, 109, 97>> (* 'schema' *)>>

\* valueTypes[0] || ''
firstOrEmpty(valueTypes) == IF valueTypes = <<>> THEN <<>> ELSE valueTypes[1]

\* The descriptor of the property named `key` of the class id, as the
\* parser `st` resolves it under dtContext.
descriptorOf(st, dtContext, id, key) ==
    [label |-> key,
     required |-> includes(getRequiredPropertiesFromType(getShortNameFromId(dtContext, id)),
                           key),
     type |-> IF isArrayFromShortName(key) THEN <<97, 114, 114, 97, 121>> (* 'array' *)
              ELSE firstOrEmpty(getValueTypesFromId(
                       st, dtContext, getIdFromShortName(dtContext, key), 1).ret.val)]

\* getTypedPropertiesFromId returned `typed` for id, and `keys` are the
\* property names it is to describe: one descriptor for each, in order.
describes(typed, keys, dtContext, id) ==
    /\ Len(typed.ret.val) = Len(keys)
    /\ \A k \in 1..Len(keys) :
           typed.ret.val[k] = descriptorOf(typed.st, dtContext, id, keys[k])

\* C12 as stated: a call of getTypedPropertiesFromId that returns, for an
\* id that is no language container, returns one descriptor for each name
\* that getPropertiesFromId returns for the id, in the same order: its
\* label the name, its type 'array' for a name of the array list and else
\* the first value type of the property's id or '', required exactly for
\* the required properties of the type that the short name of id names.
C12_TypedPropertiesDescribeProperties ==
    \A c \in 1..Len(Contexts), id \in QueryIds :
        (/\ ~isInternationalizationFromId(Contexts[c], id)
         /\ ~getTypedPropertiesFromId(This, Contexts[c], id, 1).err)
        => describes(getTypedPropertiesFromId(This, Contexts[c], id, 1),
                     getPropertiesFromId(
                         getTypedPropertiesFromId(This, Contexts[c], id, 1).st,
                         Contexts[c], id, 1).ret.val,
                     Contexts[c], id)

\* C12 witness: under the context of a capability model, which does not
\* name unit, the properties cached for Telemetry are the id of unit and
\* name, and the typed properties cached for it describe name alone.
C12_Witness ==
    /\ contextsUsed = {2}
    /\ TELEMETRY \in DOMAIN cache.PropertiesFromId
    /\ cache.PropertiesFromId[TELEMETRY].val = <<UNIT, <<110, 97, 109, 101>> (* 'name' *)>>
    /\ TELEMETRY \in DOMAIN cache.TypedPropertiesFromId
    /\ cache.TypedPropertiesFromId[TELEMETRY].val
           = <<[label |-> <<110, 97, 109, 101>> (* 'name' *), required |-> TRUE, type |-> <<>>]>>

(***************************************************************************)
(* The diagnostics.  The claims are on the state a call of getIssues       *)
(* leaves: the context and the document it was called with, the issues it  *)
(* returned, and whether it threw.                                         *)
(***************************************************************************)
\* Type names that the switch of getRequiredPropertiesFromType does not list
OtherTypeNames ==
    {<<>>, <<105, 110, 116, 101, 114, 102, 97, 99, 101>> (* 'interface' *), <<73, 78, 84, 69, 82, 70, 65, 67, 69>> (* 'INTERFACE' *), <<73, 110, 116, 101, 114, 102, 97, 99, 101, 32>> (* 'Interface ' *), <<85, 110, 107, 110, 111, 119, 110>> (* 'Unknown' *), <<69, 110, 116, 105, 116, 121>> (* 'Entity' *), <<85, 110, 105, 116>> (* 'Unit' *),
     <<83, 99, 104, 101, 109, 97>> (* 'Schema' *), <<66, 111, 103, 117, 115>> (* 'Bogus' *), <<116, 101, 108, 101, 109, 101, 116, 114, 121>> (* 'telemetry' *), <<73, 110, 116, 101, 114, 102, 97, 99, 101, 115>> (* 'Interfaces' *), <<64, 116, 121, 112, 101>> (* '@type' *), ENTITY, INTERFACE}

\* The message of the issue for an object of type Interface that has none of
\* the required properties
MissingOfInterface ==
    <<77, 105, 115, 115, 105, 110, 103, 32, 114, 101, 113, 117, 105, 114, 101, 100, 32, 112, 114, 111, 112, 101, 114, 116, 105, 101, 115, 58>> (* 'Missing required properties:' *) \o <<10>> \o <<64, 105, 100>> (* '@id' *) \o <<10>> \o <<64, 116, 121, 112, 101>> (* '@type' *) \o <<10>>
        \o <<64, 99, 111, 110, 116, 101, 120, 116>> (* '@context' *)

\* C13: getRequiredPropertiesFromType('Interface') is ['@id', '@type',
\* '@context'] and the result for a type name outside the table is [],
\* whatever the graph, the context and the calls made before: in every state,
\* and an object without properties and without a type at the root of an
\* interface file is reported to miss exactly these three.
C13_RequiredPropertiesFromType ==
    /\ getRequiredPropertiesFromType(<<73, 110, 116, 101, 114, 102, 97, 99, 101>> (* 'Interface' *)) = <<<<64, 105, 100>> (* '@id' *), <<64, 116, 121, 112, 101>> (* '@type' *), <<64, 99, 111, 110, 116, 101, 120, 116>> (* '@context' *)>>
    /\ \A type \in OtherTypeNames : getRequiredPropertiesFromType(type) = <<>>
    /\ (document = EmptyObject /\ ~thrown)
           => issues = <<Issue(0, 0, MissingOfInterface)>>

\* C13 witness: a second call, under the context of a capability model and
\* with caches that an earlier call under the other context has filled,
\* reports the three required properties of Interface.
C13_Witness ==
    /\ calls = 2
    /\ contextsUsed = {1, 2}
    /\ context = 2
    /\ cache.TypesFromId # EmptyCache.TypesFromId
    /\ document = EmptyObject
    /\ ~thrown
    /\ issues = <<Issue(0, 0, MissingOfInterface)>>

\* A call that ended with `thrownAfter` and `issuesAfter` returned the
\* issues of getJsonValueIssues, which ended as `valueIssues`, followed by
\* those of getTypeIssues, which ended as `typeIssues`; it threw if one of
\* the two did.
returnedBoth(valueIssues, typeIssues, issuesAfter, thrownAfter) ==
    IF valueIssues.err \/ typeIssues.err THEN thrownAfter
    ELSE ~thrownAfter /\ issuesAfter = valueIssues.ret \o typeIssues.ret

\* getJsonValueIssues on the root `json` of doc, called on the parser `st`
\* under dtContext, and getTypeIssues on the root called after it
typeIssuesAfter(valueIssues, dtContext, doc, json) ==
    getTypeIssues(valueIssues.st, dtContext, doc, json, Undefined, FALSE)

returnedAsStated(st, dtContext, doc, json, issuesAfter, thrownAfter) ==
    returnedBoth(getJsonValueIssues(st, dtContext, doc, json, FALSE, Undefined),
                 typeIssuesAfter(getJsonValueIssues(st, dtContext, doc, json, FALSE,
                                                    Undefined),
                                 dtContext, doc, json),
                 issuesAfter, thrownAfter)

\* C14: a call of getIssues on a document whose text is not the text of a
\* JSON value returns no issue and does not throw; on a document whose text
\* is, it returns the issues of getJsonValueIssues on the root followed by
\* the issues of getTypeIssues on the root.
C14_UnparsableNoIssues ==
    [][calls' = calls + 1
           => IF ~jsonOf[document'].ok THEN issues' = <<>> /\ ~thrown'
              ELSE returnedAsStated(This, Contexts[context'], document',
                                    jsonOf[document'].value, issues', thrown')]_vars

\* C14 witness: a parser whose caches an earlier call has filled is called
\* with a text that ends within an array, and returns no issue.
C14_Witness ==
    /\ calls = 2
    /\ cache.TypesFromId # EmptyCache.TypesFromId
    /\ document = TruncatedText
    /\ ~parse(document.text).ok
    /\ issues = <<>>
    /\ ~thrown

\* The objects of a JSON value, each with the key and the isInlineInterface
\* that getJsonValueIssues hands on for it when it descends from the value
\* under jsonKey
RECURSIVE objectsIn(_, _, _)
objectsIn(jsonValue, jsonKey, isInlineInterface) ==
    CASE jsonValue.valueKind = "ObjectValue" ->
             {[value |-> jsonValue, jsonKey |-> jsonKey,
               isInlineInterface |-> isInlineInterface]}
                 \cup UNION {objectsIn(
                                 getPropertyValue(jsonValue, jsonValue.propertyNames[k]),
                                 IF /\ ~isInlineInterface
                                    /\ jsonKey = <<105, 109, 112, 108, 101, 109, 101, 110, 116, 115>> (* 'implements' *)
                                    /\ jsonValue.propertyNames[k] = <<115, 99, 104, 101, 109, 97>> (* 'schema' *)
                                 THEN inlineInterfaceKeyName
                                 ELSE jsonValue.propertyNames[k],
                                 \/ isInlineInterface
                                 \/ /\ jsonKey = <<105, 109, 112, 108, 101, 109, 101, 110, 116, 115>> (* 'implements' *)
                                    /\ jsonValue.propertyNames[k] = <<115, 99, 104, 101, 109, 97>> (* 'schema' *)) :
                                 k \in 1..Len(jsonValue.propertyNames)}
      [] jsonValue.valueKind = "ArrayValue" ->
             UNION {objectsIn(jsonValue.elements[k], jsonKey, isInlineInterface) :
                        k \in 1..Len(jsonValue.elements)}
      [] OTHER -> {}

\* The objects of each document
objectsOf ==
    [d \in Documents |->
        IF jsonOf[d].ok THEN objectsIn(jsonOf[d].value, Undefined, FALSE) ELSE {}]

\* The key of an object is one that dtContext resolves to an id, or the
\* object is the root
hasValidTypes(dtContext, jsonKey) ==
    ~isKey(jsonKey) \/ getIdFromShortName(dtContext, jsonKey) \notin {Null, <<>>}

\* The types valid for an object under jsonKey: the type of the file for
\* the root, else the types of the id of the key, as the parser `st`
\* returns them
validTypesOf(st, dtContext, doc, jsonKey) ==
    IF ~isKey(jsonKey)
    THEN <<IF isInterfaceFile(doc) THEN ModelType.Interface ELSE ModelType.CapabilityModel>>
    ELSE getTypesFromId(st, dtContext, getIdFromShortName(dtContext, jsonKey), 1).ret.val

\* The object states its type: a property @type that is a string or an
\* array
statesType(jsonValue) ==
    /\ hasProperty(jsonValue, <<64, 116, 121, 112, 101>> (* '@type' *))
    /\ getPropertyValue(jsonValue, <<64, 116, 121, 112, 101>> (* '@type' *)).valueKind \in {"StringValue", "ArrayValue"}

\* The @type of the object is not valid under the key, the valid types
\* being `types`: a string that is none of them, or an array that, under
\* 'contents', holds none of them and, under another key, holds a string
\* that is none of them
statesInvalidType(typeValue, types, jsonKey) ==
    IF typeValue.valueKind = "StringValue" THEN ~includes(types, typeValue.text)
    ELSE IF jsonKey = <<99, 111, 110, 116, 101, 110, 116, 115>> (* 'contents' *)
    THEN \A k \in 1..Len(typeValue.elements) : ~includes(types, typeValue.elements[k].text)
    ELSE \E k \in 1..Len(typeValue.elements) : ~includes(types, typeValue.elements[k].text)

\* An issue on the stated type or on one of the elements of its array,
\* whose message is one of those of getInvalidTypeIssues
isTypeIssue(issue, typeValue) ==
    /\ typeValue.span.startIndex <= issue.startIndex
    /\ issue.endIndex <= typeValue.span.endIndex
    /\ \/ startsWith(issue.message, <<73, 110, 118, 97, 108, 105, 100, 32, 116, 121, 112, 101, 46, 32, 86, 97, 108, 105, 100, 32, 116, 121, 112, 101, 115, 58>> (* 'Invalid type. Valid types:' *))
       \/ startsWith(issue.message, <<77, 105, 115, 115, 105, 110, 103, 32, 114, 101, 113, 117, 105, 114, 101, 100, 32, 116, 121, 112, 101, 46>> (* 'Missing required type.' *))
       \/ startsWith(issue.message, <<67, 111, 110, 102, 108, 105, 99, 116, 32, 116, 121, 112, 101, 58, 32>> (* 'Conflict type: ' *))
       \/ \E k \in 1..Len(typeValue.elements) :
              issue.message
                  = typeValue.elements[k].text \o <<32, 104, 97, 115, 32, 97, 108, 114, 101, 97, 100, 121, 32, 98, 101, 101, 110, 32, 97, 100, 100, 101, 100, 32, 98, 101, 102, 111, 114, 101, 46>> (* ' has already been added before.' *)

\* getObjectIssues having ended as `called` for the object o: what C15
\* states of it
typeIssuesOnly(called, typeValue) ==
    /\ called.ret # <<>>
    /\ \A k \in 1..Len(called.ret) : isTypeIssue(called.ret[k], typeValue)

objectIssuesAsStated(called, st, dtContext, doc, o) ==
    IF called.err THEN TRUE
    ELSE IF ~statesType(o.value)
    THEN (~hasValidTypes(dtContext, o.jsonKey)
              \/ Len(validTypesOf(st, dtContext, doc, o.jsonKey)) # 1)
             => called.ret = <<Issue(o.value.span.startIndex, o.value.span.endIndex,
                                     <<64, 116, 121, 112, 101, 32, 105, 115, 32, 109, 105, 115, 115, 105, 110, 103>> (* '@type is missing' *))>>
    ELSE (/\ hasValidTypes(dtContext, o.jsonKey)
          /\ statesInvalidType(getPropertyValue(o.value, <<64, 116, 121, 112, 101>> (* '@type' *)),
                               validTypesOf(st, dtContext, doc, o.jsonKey), o.jsonKey))
             => typeIssuesOnly(called, getPropertyValue(o.value, <<64, 116, 121, 112, 101>> (* '@type' *)))

\* C15: getObjectIssues, called on any object of a document by a parser in
\* the state a call of getIssues finds, returns exactly one issue '@type is
\* missing' on the span of the object when the object states no type and
\* the types valid under its key are not exactly one; and returns nothing
\* but issues on the stated type, at least one, when the type it states is
\* not valid under its key.
C15_NoTypeStopsObject ==
    [][calls' = calls + 1
           => \A o \in objectsOf[document'] :
                  objectIssuesAsStated(
                      getObjectIssues(This, Contexts[context'], document', o.value,
                                      o.isInlineInterface, o.jsonKey),
                      This, Contexts[context'], document', o)]_vars

\* C15 witness: the schema of a telemetry states no type, two types being
\* valid for a schema, and the call returns the one issue on the schema,
\* none for the name within it that breaks the rule of names.
C15_Witness ==
    /\ document = UntypedSchema
    /\ context = 1
    /\ ~thrown
    /\ \E o \in objectsOf[document] :
           /\ o.jsonKey = <<115, 99, 104, 101, 109, 97>> (* 'schema' *)
           /\ ~statesType(o.value)
           /\ getPropertyValue(o.value, <<110, 97, 109, 101>> (* 'name' *)).text = <<98, 97, 100, 32, 110, 97, 109, 101, 33>> (* 'bad name!' *)
           /\ Len(validTypesOf(This, Contexts[1], document, o.jsonKey)) = 2
           /\ issues = <<Issue(o.value.span.startIndex, o.value.span.endIndex,
                               <<64, 116, 121, 112, 101, 32, 105, 115, 32, 109, 105, 115, 115, 105, 110, 103>> (* '@type is missing' *))>>

\* The type names that the object states
statedTypes(jsonValue) ==
    IF ~statesType(jsonValue) THEN <<>>
    ELSE IF getPropertyValue(jsonValue, <<64, 116, 121, 112, 101>> (* '@type' *)).valueKind = "StringValue"
    THEN <<getPropertyValue(jsonValue, <<64, 116, 121, 112, 101>> (* '@type' *)).text>>
    ELSE [k \in 1..Len(getPropertyValue(jsonValue, <<64, 116, 121, 112, 101>> (* '@type' *)).elements) |->
             getPropertyValue(jsonValue, <<64, 116, 121, 112, 101>> (* '@type' *)).elements[k].text]

\* The message lists the property among the missing required properties
listsMissing(message, property) ==
    /\ startsWith(message, <<77, 105, 115, 115, 105, 110, 103, 32, 114, 101, 113, 117, 105, 114, 101, 100, 32, 112, 114, 111, 112, 101, 114, 116, 105, 101, 115, 58>> (* 'Missing required properties:' *) \o <<10>>)
    /\ \E i \in 1..Len(message) :
           /\ i + Len(property) <= Len(message)
           /\ SubSeq(message, i, i + Len(property)) = <<10>> \o property
           /\ i + Len(property) = Len(message) \/ message[i + Len(property) + 1] = 10

\* Some issue of the list, at the start of the object, lists the property
\* as missing
reportsMissing(list, jsonValue, property) ==
    \E k \in 1..Len(list) :
        /\ list[k].startIndex = jsonValue.span.startIndex
        /\ list[k].endIndex = jsonValue.span.startIndex
        /\ listsMissing(list[k].message, property)

\* Every required property of a type the object states that the object
\* does not have, `exempt` apart, is reported as missing in the list
missingReported(list, o, exempt) ==
    \A t \in 1..Len(statedTypes(o.value)) :
        \A p \in 1..Len(getRequiredPropertiesFromType(statedTypes(o.value)[t])) :
            (/\ ~hasProperty(o.value, getRequiredPropertiesFromType(statedTypes(o.value)[t])[p])
             /\ getRequiredPropertiesFromType(statedTypes(o.value)[t])[p] \notin exempt)
            => reportsMissing(list, o.value,
                              getRequiredPropertiesFromType(statedTypes(o.value)[t])[p])

\* C16 as stated: the issues that a call of getIssues returns include, for
\* every object of the document that states a type and lacks a property
\* that is required of the type, an issue that lists the property among the
\* missing required properties.
C16_MissingRequiredReported ==
    (calls > 0 /\ ~thrown)
        => \A o \in objectsOf[document] : missingReported(issues, o, {})

\* The object passes the checks of its type: getInvalidTypeIssues returns
\* no issues for it and getType a type
passesTypeChecks(st, dtContext, doc, jsonValue, jsonKey) ==
    /\ getInvalidTypeIssues(st, dtContext, doc, jsonValue, jsonKey).ret.null
    /\ ~isNoType(getType(st, dtContext, doc, jsonValue, jsonKey).ret)

\* The objects of a JSON value that the pass of getJsonValueIssues comes
\* to: those that pass the checks of their type, as do all the objects
\* above them
RECURSIVE reachedIn(_, _, _, _, _, _)
reachedIn(st, dtContext, doc, jsonValue, jsonKey, isInlineInterface) ==
    CASE jsonValue.valueKind = "ObjectValue" ->
             IF ~passesTypeChecks(st, dtContext, doc, jsonValue, jsonKey) THEN {}
             ELSE {[value |-> jsonValue, jsonKey |-> jsonKey,
                    isInlineInterface |-> isInlineInterface]}
                      \cup UNION {reachedIn(
                                      st, dtContext, doc,
                                      getPropertyValue(jsonValue, jsonValue.propertyNames[k]),
                                      IF /\ ~isInlineInterface
                                         /\ jsonKey = <<105, 109, 112, 108, 101, 109, 101, 110, 116, 115>> (* 'implements' *)
                                         /\ jsonValue.propertyNames[k] = <<115, 99, 104, 101, 109, 97>> (* 'schema' *)
                                      THEN inlineInterfaceKeyName
                                      ELSE jsonValue.propertyNames[k],
                                      \/ isInlineInterface
                                      \/ /\ jsonKey = <<105, 109, 112, 108, 101, 109, 101, 110, 116, 115>> (* 'implements' *)
                                         /\ jsonValue.propertyNames[k] = <<115, 99, 104, 101, 109, 97>> (* 'schema' *)) :
                                      k \in 1..Len(jsonValue.propertyNames)}
      [] jsonValue.valueKind = "ArrayValue" ->
             UNION {reachedIn(st, dtContext, doc, jsonValue.elements[k], jsonKey,
                              isInlineInterface) : k \in 1..Len(jsonValue.elements)}
      [] OTHER -> {}

\* C16 amended: the issues that a call of getIssues returns include, for
\* every object of the document that passes the checks of its type, as do
\* all the objects above it, and that states a type and lacks a property
\* that is required of the type - '@context' within an inline interface
\* apart - an issue at the start of the object that lists the property
\* among the missing required properties.
C16_MissingRequiredReportedAmended ==
    (calls > 0 /\ ~thrown /\ jsonOf[document].ok)
        => \A o \in reachedIn(This, Contexts[context], document, jsonOf[document].value,
                              Undefined, FALSE) :
               missingReported(issues, o,
                               IF o.isInlineInterface THEN {<<64, 99, 111, 110, 116, 101, 120, 116>> (* '@context' *)} ELSE {})

\* C16 witness: a telemetry without schema in the contents of an interface
\* is reported to miss schema, and nothing else is reported.
C16_Witness ==
    /\ document = MissingSchema
    /\ context = 1
    /\ ~thrown
    /\ \E o \in reachedIn(This, Contexts[1], document, jsonOf[document].value, Undefined,
                          FALSE) :
           /\ o.jsonKey = <<99, 111, 110, 116, 101, 110, 116, 115>> (* 'contents' *)
           /\ statedTypes(o.value) = <<<<84, 101, 108, 101, 109, 101, 116, 114, 121>> (* 'Telemetry' *)>>
           /\ ~hasProperty(o.value, <<115, 99, 104, 101, 109, 97>> (* 'schema' *))
           /\ issues = <<Issue(o.value.span.startIndex, o.value.span.startIndex,
                               <<77, 105, 115, 115, 105, 110, 103, 32, 114, 101, 113, 117, 105, 114, 101, 100, 32, 112, 114, 111, 112, 101, 114, 116, 105, 101, 115, 58>> (* 'Missing required properties:' *) \o <<10>> \o <<115, 99, 104, 101, 109, 97>> (* 'schema' *))>>

\* The arrays of a JSON value
RECURSIVE arraysIn(_)
arraysIn(jsonValue) ==
    CASE jsonValue.valueKind = "ObjectValue" ->
             UNION {arraysIn(getPropertyValue(jsonValue, jsonValue.propertyNames[k])) :
                        k \in 1..Len(jsonValue.propertyNames)}
      [] jsonValue.valueKind = "ArrayValue" ->
             {jsonValue} \cup UNION {arraysIn(jsonValue.elements[k]) :
                                         k \in 1..Len(jsonValue.elements)}
      [] OTHER -> {}

\* The arrays of each document
arraysOf == [d \in Documents |-> IF jsonOf[d].ok THEN arraysIn(jsonOf[d].value) ELSE {}]

\* The element is an object whose property 'name' is a string
isNamed(elementValue) ==
    /\ elementValue.valueKind = "ObjectValue"
    /\ hasProperty(elementValue, <<110, 97, 109, 101>> (* 'name' *))
    /\ getPropertyValue(elementValue, <<110, 97, 109, 101>> (* 'name' *)).valueKind = "StringValue"

\* The value of the property 'name' of a named element
nameValueOf(elementValue) == getPropertyValue(elementValue, <<110, 97, 109, 101>> (* 'name' *))

\* The indices, in order, of the named values whose name is that of a
\* named element before them
repeatedNames(values) ==
    SelectSeq([k \in 1..Len(values) |-> k],
              LAMBDA k : /\ isNamed(values[k])
                         /\ \E l \in 1..(k - 1) :
                                /\ isNamed(values[l])
                                /\ nameValueOf(values[l]).text = nameValueOf(values[k]).text)

\* The issue that is stated for a repeated name
repeatedNameIssue(nameValue) ==
    Issue(nameValue.span.startIndex, nameValue.span.endIndex,
          nameValue.text \o <<32, 104, 97, 115, 32, 97, 108, 114, 101, 97, 100, 121, 32, 98, 101, 101, 110, 32, 97, 115, 115, 105, 103, 110, 101, 100, 32, 116, 111, 32, 97, 110, 111, 116, 104, 101, 114, 32, 105, 116, 101, 109, 46>> (* ' has already been assigned to another item.' *))

\* The names of the named values
namesOf(values) ==
    {nameValueOf(values[k]).text : k \in {l \in 1..Len(values) : isNamed(values[l])}}

\* The issues are those stated for the array: one for each repeated name,
\* in the order of the values, each at the span of the name, and so one
\* less for each name than there are values of that name
nameIssuesAsStated(list, values) ==
    /\ list = [n \in 1..Len(repeatedNames(values)) |->
                  repeatedNameIssue(nameValueOf(values[repeatedNames(values)[n]]))]
    /\ \A name \in namesOf(values) :
           Cardinality({n \in 1..Len(list) :
                            list[n].message
                                = name \o <<32, 104, 97, 115, 32, 97, 108, 114, 101, 97, 100, 121, 32, 98, 101, 101, 110, 32, 97, 115, 115, 105, 103, 110, 101, 100, 32, 116, 111, 32, 97, 110, 111, 116, 104, 101, 114, 32, 105, 116, 101, 109, 46>> (* ' has already been assigned to another item.' *)})
               = Cardinality({k \in 1..Len(values) :
                                  /\ isNamed(values[k])
                                  /\ nameValueOf(values[k]).text = name}) - 1

\* C17: for every array of the document of a call of getIssues,
\* getArrayElementNameIssues returns one issue for each object element
\* whose string 'name' is the 'name' of an object element before it in the
\* array, at the span of the later name, and none for a first occurrence:
\* k elements of one name give k - 1 issues.
C17_OneIssuePerRepeatedName ==
    calls > 0
        => \A jsonValue \in arraysOf[document] :
               \A isInlineInterface \in BOOLEAN :
                   nameIssuesAsStated(getArrayElementNameIssues(jsonValue, isInlineInterface),
                                      jsonValue.elements)

\* C17 witness: of four telemetries in the contents of an interface, named
\* temp, temp, Temp and temp, getIssues reports the second and the fourth
\* at their names, and nothing else.
C17_Witness ==
    /\ document = ThreeTemps
    /\ context = 1
    /\ ~thrown
    /\ \E jsonValue \in arraysOf[document] :
           /\ Len(jsonValue.elements) = 4
           /\ \A k \in 1..4 : isNamed(jsonValue.elements[k])
           /\ repeatedNames(jsonValue.elements) = <<2, 4>>
           /\ issues = <<repeatedNameIssue(nameValueOf(jsonValue.elements[2])),
                         repeatedNameIssue(nameValueOf(jsonValue.elements[4]))>>
           /\ issues = getArrayElementNameIssues(jsonValue, FALSE)

\* The strings of a JSON value, each with the key and the isInlineInterface
\* that getJsonValueIssues hands on for it when it descends from the value
\* under jsonKey
RECURSIVE stringsIn(_, _, _)
stringsIn(jsonValue, jsonKey, isInlineInterface) ==
    CASE jsonValue.valueKind = "ObjectValue" ->
             UNION {stringsIn(
                        getPropertyValue(jsonValue, jsonValue.propertyNames[k]),
                        IF /\ ~isInlineInterface
                           /\ jsonKey = <<105, 109, 112, 108, 101, 109, 101, 110, 116, 115>> (* 'implements' *)
                           /\ jsonValue.propertyNames[k] = <<115, 99, 104, 101, 109, 97>> (* 'schema' *)
                        THEN inlineInterfaceKeyName
                        ELSE jsonValue.propertyNames[k],
                        \/ isInlineInterface
                        \/ /\ jsonKey = <<105, 109, 112, 108, 101, 109, 101, 110, 116, 115>> (* 'implements' *)
                           /\ jsonValue.propertyNames[k] = <<115, 99, 104, 101, 109, 97>> (* 'schema' *)) :
                        k \in 1..Len(jsonValue.propertyNames)}
      [] jsonValue.valueKind = "ArrayValue" ->
             UNION {stringsIn(jsonValue.elements[k], jsonKey, isInlineInterface) :
                        k \in 1..Len(jsonValue.elements)}
      [] jsonValue.valueKind = "StringValue" ->
             {[value |-> jsonValue, jsonKey |-> jsonKey,
               isInlineInterface |-> isInlineInterface]}
      [] OTHER -> {}

\* The strings of each document
stringsOf ==
    [d \in Documents |->
        IF jsonOf[d].ok THEN stringsIn(jsonOf[d].value, Undefined, FALSE) ELSE {}]

\* The legal values of a string under jsonKey: the two context URIs for
\* '@context', the string-primitive marker for '@id', else what the parser
\* `st` returns for the key under dtContext
legalValuesOf(st, dtContext, doc, jsonKey, isInlineInterface) ==
    IF jsonKey = <<64, 99, 111, 110, 116, 101, 120, 116>> (* '@context' *)
    THEN <<IF isInlineInterface \/ isInterfaceFile(doc)
           THEN ContextUris.interface ELSE ContextUris.capabilityModel,
           ContextUris.iotModel>>
    ELSE IF jsonKey = <<64, 105, 100>> (* '@id' *) THEN <<<<88, 77, 76, 83, 99, 104, 101, 109, 97, 35, 115, 116, 114, 105, 110, 103>> (* 'XMLSchema#string' *)>>
    ELSE getStringValuesFromShortName(st, dtContext, jsonKey, 1).ret.val

\* The legal values of the key are a set to choose from: there are some,
\* and the string-primitive marker is not among them
isEnumerated(values) ==
    /\ values # <<>>
    /\ \A k \in 1..Len(values) : values[k] # <<88, 77, 76, 83, 99, 104, 101, 109, 97, 35, 115, 116, 114, 105, 110, 103>> (* 'XMLSchema#string' *)

\* The value is one of the legal values, the case of the letters left
\* aside for the key '@context'
isLegalValue(value, values, jsonKey) ==
    \E k \in 1..Len(values) :
        \/ values[k] = value
        \/ jsonKey = <<64, 99, 111, 110, 116, 101, 120, 116>> (* '@context' *) /\ toLowerCase(values[k]) = toLowerCase(value)

\* The message lists the legal values, one to a line
listsLegalValues(message, values) ==
    message = <<73, 110, 118, 97, 108, 105, 100, 32, 118, 97, 108, 117, 101, 46, 32, 86, 97, 108, 105, 100, 32, 118, 97, 108, 117, 101, 115, 58>> (* 'Invalid value. Valid values:' *) \o <<10>> \o join(values, <<10>>)

\* The issues `called` are those stated for a string under a key with the
\* legal values `values`: none for a legal value, else one at the string
\* that lists the legal values
enumeratedAsStated(called, jsonValue, values, jsonKey) ==
    IF isLegalValue(jsonValue.text, values, jsonKey) THEN called = <<>>
    ELSE /\ Len(called) = 1
         /\ called[1].startIndex = jsonValue.span.startIndex
         /\ called[1].endIndex = jsonValue.span.endIndex
         /\ listsLegalValues(called[1].message, values)

\* C18: for every string of the document of a call of getIssues, under
\* both contexts and in the state the parser is in, getStringIssues returns,
\* when the legal values of the key of the string are a set to choose from,
\* no issue for a string that is one of them and else exactly one issue
\* that lists every legal value; only under '@context' the case of the
\* letters does not count.
C18_EnumeratedValues ==
    calls > 0
        => \A s \in stringsOf[document] :
               \A c \in DOMAIN Contexts :
                   (/\ isKey(s.jsonKey)
                    /\ ~getStringIssues(This, Contexts[c], document, s.value,
                                        s.isInlineInterface, s.jsonKey).err
                    /\ isEnumerated(legalValuesOf(This, Contexts[c], document, s.jsonKey,
                                                  s.isInlineInterface)))
                       => enumeratedAsStated(
                              getStringIssues(This, Contexts[c], document, s.value,
                                              s.isInlineInterface, s.jsonKey).ret,
                              s.value,
                              legalValuesOf(This, Contexts[c], document, s.jsonKey,
                                            s.isInlineInterface),
                              s.jsonKey)

\* C18 witness: the unit 'Kelvin' of a telemetry, where the legal units are
\* 'celsius' and 'kelvin', is the one issue of the document, and it lists
\* both.
C18_Witness ==
    /\ document = UnitKelvin
    /\ context = 1
    /\ ~thrown
    /\ \E s \in stringsOf[document] :
           /\ s.jsonKey = <<117, 110, 105, 116>> (* 'unit' *)
           /\ s.value.text = <<75, 101, 108, 118, 105, 110>> (* 'Kelvin' *)
           /\ legalValuesOf(This, Contexts[1], document, s.jsonKey, FALSE)
                  = <<<<99, 101, 108, 115, 105, 117, 115>> (* 'celsius' *), <<107, 101, 108, 118, 105, 110>> (* 'kelvin' *)>>
           /\ issues = <<Issue(s.value.span.startIndex, s.value.span.endIndex,
                               <<73, 110, 118, 97, 108, 105, 100, 32, 118, 97, 108, 117, 101, 46, 32, 86, 97, 108, 105, 100, 32, 118, 97, 108, 117, 101, 115, 58>> (* 'Invalid value. Valid values:' *) \o <<10>> \o <<99, 101, 108, 115, 105, 117, 115>> (* 'celsius' *)
                                   \o <<10>> \o <<107, 101, 108, 118, 105, 110>> (* 'kelvin' *))>>

\* The string has a character other than a-z, A-Z, 0-9 and underscore
hasOtherCharacter(text) ==
    \E k \in 1..Len(text) : text[k] \notin (97..122) \cup (65..90) \cup (48..57) \cup {95}

\* The one issue that cites the rule of names, at the string
nameRuleIssue(jsonValue) ==
    Issue(jsonValue.span.startIndex, jsonValue.span.endIndex,
          <<73, 110, 118, 97, 108, 105, 100, 32, 118, 97, 108, 117, 101, 46, 32, 86, 97, 108, 105, 100, 32, 118, 97, 108, 117, 101, 32, 109, 117, 115, 116, 32, 109, 97, 116, 99, 104, 32, 116, 104, 105, 115, 58, 32, 84, 104, 101, 32, 110, 97, 109, 101, 32, 115, 104, 111, 117, 108, 100, 32, 111, 110, 108, 121, 32, 99, 111, 110, 116, 97, 105, 110, 32, 116, 104, 101, 32, 99, 104, 97, 114, 97, 99, 116, 101, 114, 115, 32, 97, 45, 122, 44, 32, 65, 45, 90, 44, 32, 48, 45, 57, 44, 32, 97, 110, 100, 32, 117, 110, 100, 101, 114, 115, 99, 111, 114, 101, 46>> (* 'Invalid value. Valid value must match this: The name should only contain the characters a-z, A-Z, 0-9, and underscore.' *))

\* An issue of the membership in a set of legal values
isMembershipIssue(issue) == startsWith(issue.message, <<73, 110, 118, 97, 108, 105, 100, 32, 118, 97, 108, 117, 101, 46, 32, 86, 97, 108, 105, 100, 32, 118, 97, 108, 117, 101, 115, 58>> (* 'Invalid value. Valid values:' *))

\* The issues `called` are those stated for a string under jsonKey: one that
\* cites the rule of names for a name with another character, and, where
\* the string-primitive marker is among the legal values of the key, the
\* issues of the pattern and of the length of the key and none of membership
patternAsStated(called, doc, jsonValue, values, jsonKey) ==
    /\ (jsonKey = <<110, 97, 109, 101>> (* 'name' *) /\ hasOtherCharacter(jsonValue.text))
           => called = <<nameRuleIssue(jsonValue)>>
    /\ includes(values, <<88, 77, 76, 83, 99, 104, 101, 109, 97, 35, 115, 116, 114, 105, 110, 103>> (* 'XMLSchema#string' *))
           => /\ called = getStringPatternIssues(doc, jsonValue, jsonKey)
              /\ \A n \in 1..Len(called) : ~isMembershipIssue(called[n])

\* C19: for every string of the document of a call of getIssues, under
\* both contexts and in the state the parser is in, getStringIssues returns
\* exactly one issue, citing the rule of names, for a name with a character
\* other than a-z, A-Z, 0-9 and underscore, and for a key whose legal values
\* have the string-primitive marker it returns the issues of the pattern
\* and of the length of the key, and none of membership.
C19_PatternInsteadOfMembership ==
    calls > 0
        => \A s \in stringsOf[document] :
               \A c \in DOMAIN Contexts :
                   (/\ isKey(s.jsonKey)
                    /\ ~getStringIssues(This, Contexts[c], document, s.value,
                                        s.isInlineInterface, s.jsonKey).err)
                       => patternAsStated(
                              getStringIssues(This, Contexts[c], document, s.value,
                                              s.isInlineInterface, s.jsonKey).ret,
                              document, s.value,
                              legalValuesOf(This, Contexts[c], document, s.jsonKey,
                                            s.isInlineInterface),
                              s.jsonKey)

\* C19 witness: the name 'bad name!' of a telemetry is the one issue of the
\* document, and it cites the rule of names.
C19_Witness ==
    /\ document = BadName
    /\ context = 1
    /\ ~thrown
    /\ \E s \in stringsOf[document] :
           /\ s.jsonKey = <<110, 97, 109, 101>> (* 'name' *)
           /\ s.value.text = <<98, 97, 100, 32, 110, 97, 109, 101, 33>> (* 'bad name!' *)
           /\ includes(legalValuesOf(This, Contexts[1], document, s.jsonKey, FALSE),
                       <<88, 77, 76, 83, 99, 104, 101, 109, 97, 35, 115, 116, 114, 105, 110, 103>> (* 'XMLSchema#string' *))
           /\ issues = <<nameRuleIssue(s.value)>>

\* A step of the descent of getTypeIssues: the key and the isArrayElement
\* that a value is visited with
Step(jsonKey, isArrayElement) == [jsonKey |-> jsonKey, isArrayElement |-> isArrayElement]

\* The numbers of a JSON value that is visited with `step`, each with its
\* own step and with the steps of the values above it, from the root down
RECURSIVE numbersIn(_, _, _)
numbersIn(jsonValue, step, above) ==
    CASE jsonValue.valueKind = "ObjectValue" ->
             UNION {numbersIn(getPropertyValue(jsonValue, jsonValue.propertyNames[k]),
                              Step(jsonValue.propertyNames[k], FALSE),
                              Append(above, step)) :
                        k \in 1..Len(jsonValue.propertyNames)}
      [] jsonValue.valueKind = "ArrayValue" ->
             UNION {numbersIn(jsonValue.elements[k], Step(step.jsonKey, TRUE),
                              Append(above, step)) :
                        k \in 1..Len(jsonValue.elements)}
      [] jsonValue.valueKind = "NumberValue" ->
             {[value |-> jsonValue, step |-> step, above |-> above]}
      [] OTHER -> {}

\* The numbers of each document
numbersOf ==
    [d \in Documents |->
        IF jsonOf[d].ok THEN numbersIn(jsonOf[d].value, Step(Undefined, FALSE), <<>>)
        ELSE {}]

\* The key of the step has value types under dtContext: it is an array key
\* that holds the value itself, or dtContext resolves it to an id
hasValueTypes(dtContext, step) ==
    /\ isKey(step.jsonKey)
    /\ \/ ~step.isArrayElement /\ isArrayFromShortName(step.jsonKey)
       \/ getIdFromShortName(dtContext, step.jsonKey) \notin {Null, <<>>}

\* The value types of the key of a step that has them: 'array' for an array
\* key that holds the value itself, else those that the parser `st` returns
\* for the id of the key
valueTypesOfStep(st, dtContext, step) ==
    IF ~step.isArrayElement /\ isArrayFromShortName(step.jsonKey) THEN <<<<97, 114, 114, 97, 121>> (* 'array' *)>>
    ELSE getValueTypesFromId(st, dtContext, getIdFromShortName(dtContext, step.jsonKey),
                             1).ret.val

\* The integrality issues of a list at a number: those at its span that
\* tell the valid value
integralityIssues(list, jsonValue) ==
    {n \in 1..Len(list) :
         /\ list[n].startIndex = jsonValue.span.startIndex
         /\ list[n].endIndex = jsonValue.span.endIndex
         /\ startsWith(list[n].message, <<73, 110, 118, 97, 108, 105, 100, 32, 118, 97, 108, 117, 101, 46, 32, 86, 97, 108, 105, 100, 32, 118, 97, 108, 117, 101, 32, 105, 115, 32>> (* 'Invalid value. Valid value is ' *))}

\* The list has the integrality issues stated for a number under a key with
\* the value types `valueTypes`: exactly one, which names the types, for a
\* number with a fraction where neither float nor double is among the
\* types, and else none
integralityAsStated(list, jsonValue, valueTypes) ==
    IF /\ ~isInteger(jsonValue.text)
       /\ \A k \in 1..Len(valueTypes) : valueTypes[k] \notin {<<102, 108, 111, 97, 116>> (* 'float' *), <<100, 111, 117, 98, 108, 101>> (* 'double' *)}
    THEN /\ Cardinality(integralityIssues(list, jsonValue)) = 1
         /\ \A n \in integralityIssues(list, jsonValue) :
                list[n].message = <<73, 110, 118, 97, 108, 105, 100, 32, 118, 97, 108, 117, 101, 46, 32, 86, 97, 108, 105, 100, 32, 118, 97, 108, 117, 101, 32, 105, 115, 32>> (* 'Invalid value. Valid value is ' *)
                                      \o join(valueTypes, <<44, 32>> (* ', ' *)) \o <<46>> (* '.' *)
    ELSE integralityIssues(list, jsonValue) = {}

isReachedNumber(dtContext, n) ==
    \A k \in 1..Len(n.above) :
        isKey(n.above[k].jsonKey) => hasValueTypes(dtContext, n.above[k])

RECURSIVE propertyValuesIn(_)
propertyValuesIn(jsonValue) ==
    CASE jsonValue.valueKind = "ObjectValue" ->
             UNION {{[jsonKey |-> jsonValue.propertyNames[k],
                      value |-> getPropertyValue(jsonValue, jsonValue.propertyNames[k])]}
                        \cup propertyValuesIn(
                                 getPropertyValue(jsonValue, jsonValue.propertyNames[k])) :
                        k \in 1..Len(jsonValue.propertyNames)}
      [] jsonValue.valueKind = "ArrayValue" ->
             UNION {propertyValuesIn(jsonValue.elements[k]) :
                        k \in 1..Len(jsonValue.elements)}
      [] OTHER -> {}

\* The property values of each document
propertyValuesOf ==
    [d \in Documents |-> IF jsonOf[d].ok THEN propertyValuesIn(jsonOf[d].value) ELSE {}]

\* The key is a property key that dtContext does not resolve to an id (the
\* keywords, which start with '@', are not property keys)
isUnresolvable(dtContext, jsonKey) ==
    /\ jsonKey # <<>>
    /\ jsonKey[1] # 64
    /\ getIdFromShortName(dtContext, jsonKey) \in {Null, <<>>}

\* The issues of a list that lie within a value
issuesWithin(list, jsonValue) ==
    {n \in 1..Len(list) :
         /\ list[n].startIndex >= jsonValue.span.startIndex
         /\ list[n].endIndex <= jsonValue.span.endIndex}

\* C21 as stated: a call of getIssues that returns has no issue within a
\* value, of whatever kind, of a property whose key the context does not
\* resolve to an id: the checks of the subtree are skipped.
C21_UnresolvableSubtreeSilent ==
    (calls > 0 /\ ~thrown)
        => \A p \in propertyValuesOf[document] :
               isUnresolvable(Contexts[context], p.jsonKey)
                   => issuesWithin(issues, p.value) = {}

\* C21 witness: the object under the key 'bogus', which the interface
\* context does not resolve, is reported for its missing @type.
C21_Witness ==
    /\ document = FractionBelowUnknownKey
    /\ context = 1
    /\ ~thrown
    /\ \E p \in propertyValuesOf[document] :
           /\ p.jsonKey = <<98, 111, 103, 117, 115>> (* 'bogus' *)
           /\ p.value.valueKind = "ObjectValue"
           /\ isUnresolvable(Contexts[1], p.jsonKey)
           /\ \E n \in issuesWithin(issues, p.value) :
                  issues[n] = Issue(p.value.span.startIndex, p.value.span.endIndex,
                                    <<64, 116, 121, 112, 101, 32, 105, 115, 32, 109, 105, 115, 115, 105, 110, 103>> (* '@type is missing' *))

\* Lists of type names: one type, two types, and a type without mapping
TypeLists ==
    {<<<<73, 110, 116, 101, 114, 102, 97, 99, 101>> (* 'Interface' *)>>, <<<<84, 101, 108, 101, 109, 101, 116, 114, 121>> (* 'Telemetry' *)>>, <<<<67, 97, 112, 97, 98, 105, 108, 105, 116, 121, 77, 111, 100, 101, 108>> (* 'CapabilityModel' *)>>,
     <<<<84, 101, 108, 101, 109, 101, 116, 114, 121>> (* 'Telemetry' *), <<73, 110, 116, 101, 114, 102, 97, 99, 101>> (* 'Interface' *)>>, <<<<66, 111, 103, 117, 115>> (* 'Bogus' *)>>}

\* The labels of the typed properties that a call of
\* getTypedPropertiesFromType has returned as `typed`
labelSet(typed) == {typed.ret.val[k].label : k \in 1..Len(typed.ret.val)}

\* The labels of the typed properties of the types, as the parser `st`
\* returns them under dtContext
typedLabels(st, dtContext, type) ==
    UNION {labelSet(getTypedPropertiesFromType(st, dtContext, type[t], 1)) :
               t \in 1..Len(type)}

\* The name is required of one of the types
isRequiredName(type, name) ==
    \E t \in 1..Len(type) : includes(getRequiredPropertiesFromType(type[t]), name)

\* The issues of a list at the name token of property i of an object that
\* say that the property is unexpected
unexpectedAt(list, jsonValue, i) ==
    {n \in 1..Len(list) :
         list[n] = Issue(jsonValue.properties[i].name.span.startIndex,
                         jsonValue.properties[i].name.span.endIndex,
                         jsonValue.propertyNames[i] \o <<32, 105, 115, 32, 117, 110, 101, 120, 112, 101, 99, 116, 101, 100, 46>> (* ' is unexpected.' *))}

\* The properties of the object that are stated to be unexpected for the
\* types
statedUnexpected(typed, type, jsonValue) ==
    {i \in 1..Len(jsonValue.propertyNames) :
         /\ jsonValue.propertyNames[i] \notin {<<64, 116, 121, 112, 101>> (* '@type' *), <<64, 105, 100>> (* '@id' *)}
         /\ jsonValue.propertyNames[i] \notin typed
         /\ ~isRequiredName(type, jsonValue.propertyNames[i])}

\* The issues of a call that has returned as `called` are those stated for
\* the object and the types: one at the name token of each unexpected
\* property, and no other
unexpectedAsStated(called, unexpected, jsonValue) ==
    ~called.err
        => /\ Len(called.ret) = Cardinality(unexpected)
           /\ \A i \in 1..Len(jsonValue.propertyNames) :
                  Cardinality(unexpectedAt(called.ret, jsonValue, i))
                      = IF i \in unexpected THEN 1 ELSE 0

\* C22: for every object of the document of a call of getIssues, for one
\* type and for lists of types, under the context of the call and in the
\* state the parser is in, getUnexpectedPropertiesIssues returns one issue
\* at the name token of a property exactly when the property is neither
\* '@type' nor '@id', nor the label of a typed property of one of the types, nor
\* required of one of them, and no other issue.
C22_UnexpectedProperties ==
    calls > 0
        => \A o \in objectsOf[document] :
               \A type \in TypeLists :
                   unexpectedAsStated(
                       getUnexpectedPropertiesIssues(This, Contexts[context], o.value, type),
                       statedUnexpected(typedLabels(This, Contexts[context], type), type,
                                        o.value),
                       o.value)

\* C22 witness: of the properties @type, name, schema, color and @id of a
\* telemetry, getIssues reports color, which is no property of telemetries,
\* and nothing else.
C22_Witness ==
    /\ document = UnexpectedColor
    /\ context = 1
    /\ ~thrown
    /\ \E o \in objectsOf[document] :
           /\ o.value.propertyNames
                  = <<<<64, 116, 121, 112, 101>> (* '@type' *), <<110, 97, 109, 101>> (* 'name' *), <<115, 99, 104, 101, 109, 97>> (* 'schema' *), <<99, 111, 108, 111, 114>> (* 'color' *), <<64, 105, 100>> (* '@id' *)>>
           /\ statedUnexpected(typedLabels(This, Contexts[1], <<<<84, 101, 108, 101, 109, 101, 116, 114, 121>> (* 'Telemetry' *)>>),
                               <<<<84, 101, 108, 101, 109, 101, 116, 114, 121>> (* 'Telemetry' *)>>, o.value) = {4}
           /\ Len(issues) = 1
           /\ unexpectedAt(issues, o.value, 4) = {1}

\* One of the types of the object requires '@context', the type being the
\* one that a call of getType has returned as `type`
requiresContext(type) ==
    /\ ~type.err
    /\ ~isNoType(type.ret)
    /\ \E t \in 1..Len(typesOf(type.ret)) :
           includes(getRequiredPropertiesFromType(typesOf(type.ret)[t]), <<64, 99, 111, 110, 116, 101, 120, 116>> (* '@context' *))

\* The object is within an inline interface as stated: it is the schema of
\* an object at the key 'implements', or below one (reachedIn hands the
\* flag down in this way)
isWithinInlineInterface(o) == o.isInlineInterface

\* C23: of the objects that a call of getIssues comes to, one within an
\* inline interface - the schema of an object at the key 'implements', and
\* what is below it - is never reported to miss '@context', and every other
\* one whose type requires '@context' and that has none is reported to miss
\* it.
C23_InlineInterfaceLeniency ==
    (calls > 0 /\ ~thrown /\ jsonOf[document].ok)
        => \A o \in reachedIn(This, Contexts[context], document, jsonOf[document].value,
                              Undefined, FALSE) :
               IF isWithinInlineInterface(o)
               THEN ~reportsMissing(issues, o.value, <<64, 99, 111, 110, 116, 101, 120, 116>> (* '@context' *))
               ELSE (/\ requiresContext(getType(This, Contexts[context], document, o.value,
                                                o.jsonKey))
                     /\ ~hasProperty(o.value, <<64, 99, 111, 110, 116, 101, 120, 116>> (* '@context' *)))
                        => reportsMissing(issues, o.value, <<64, 99, 111, 110, 116, 101, 120, 116>> (* '@context' *))

\* C23 witness: of three interfaces without @context in a capability
\* model - the schema of an element of 'implements', one below that schema
\* and one beside it - the one beside it alone is reported to miss
\* '@context'.
C23_Witness ==
    /\ document = InlineAndOutside
    /\ context = 2
    /\ ~thrown
    /\ \E o1, o2, o3 \in reachedIn(This, Contexts[2], document, jsonOf[document].value,
                                   Undefined, FALSE) :
           /\ o1.jsonKey = inlineInterfaceKeyName /\ o1.isInlineInterface
           /\ o2.jsonKey = <<98, 111, 103, 117, 115>> (* 'bogus' *) /\ o2.isInlineInterface
           /\ o3.jsonKey = <<98, 111, 103, 117, 115>> (* 'bogus' *) /\ ~o3.isInlineInterface
           /\ \A o \in {o1, o2, o3} :
                  /\ ~hasProperty(o.value, <<64, 99, 111, 110, 116, 101, 120, 116>> (* '@context' *))
                  /\ requiresContext(getType(This, Contexts[2], document, o.value, o.jsonKey))
           /\ ~reportsMissing(issues, o1.value, <<64, 99, 111, 110, 116, 101, 120, 116>> (* '@context' *))
           /\ ~reportsMissing(issues, o2.value, <<64, 99, 111, 110, 116, 101, 120, 116>> (* '@context' *))
           /\ reportsMissing(issues, o3.value, <<64, 99, 111, 110, 116, 101, 120, 116>> (* '@context' *))

\* The values three calls of getCommentFromId in a row return for an id,
\* the first on the parser as it is
commentsOf(st, id) ==
    LET first == getCommentFromId(st, id)
        second == getCommentFromId(first.st, id)
        third == getCommentFromId(second.st, id)
    IN  <<first.ret, second.ret, third.ret>>

\* C26: getCommentFromId is consistent under caching: whatever calls have
\* been made, for every id of the graph the next call and the calls after
\* it return the same value, also for an id without a comment edge and for
\* one whose comment edge leads to a node without a Value.
C26_CommentConsistentUnderCaching ==
    \A id \in QueryIds :
        /\ commentsOf(This, id)[2] = commentsOf(This, id)[1]
        /\ commentsOf(This, id)[3] = commentsOf(This, id)[1]

\* C26 witness: getCommentFromId has been called once, for an id whose
\* comment edge leads to a node without a Value, and the next call for the
\* id returns the empty string, where the first returned undefined.
C26_Witness ==
    /\ calls = 1
    /\ \E id \in DOMAIN cache.CommnetFromId :
           /\ commentAt(This, id) # 0
           /\ graph.Edges[commentAt(This, id)].TargetNode.Value = Undefined
           /\ getCommentFromId([This EXCEPT !.cache = EmptyCache], id).ret = Undefined
           /\ getCommentFromId(This, id).ret = <<>>
(***************************************************************************)
(* DigitalTwinDiagnostic: update and delete.                               *)
(***************************************************************************)
\* document.positionAt(offset): the line and the character of the offset,
\* which is kept within the text
positionAt(doc, offset) ==
    [line |-> Cardinality({k \in 1..Len(doc.text) : k <= offset /\ doc.text[k] = 10}),
     character |->
         (IF offset > Len(doc.text) THEN Len(doc.text) ELSE offset)
             - (IF \E k \in 1..Len(doc.text) : k <= offset /\ doc.text[k] = 10
                THEN CHOOSE k \in 1..Len(doc.text) :
                         /\ k <= offset /\ doc.text[k] = 10
                         /\ \A l \in (k + 1)..Len(doc.text) :
                                l <= offset => doc.text[l] # 10
                ELSE 0)]

\* new vscode.Diagnostic(new vscode.Range(...), issue.message, Warning)
\* (lines 669-676)
Diagnostic(doc, issue) ==
    [range |-> [start |-> positionAt(doc, issue.startIndex),
                end |-> positionAt(doc, issue.endIndex + 1)],
     message |-> issue.message,
     severity |-> "Warning"]

\* for (const issue of issues) ... this._diagnostics.push(diagnostic)
\* (lines 668-678)
pushed(array, doc, list) == array \o [k \in 1..Len(list) |-> Diagnostic(doc, list[k])]

\* collection.set(uri, array) and collection.delete(uri)
setOf(collection, uri, array) ==
    [u \in DOMAIN collection \cup {uri} |-> IF u = uri THEN array ELSE collection[u]]

deleteOf(collection, uri) == [u \in DOMAIN collection \ {uri} |-> collection[u]]

\* The documents that update and delete are called with: two texts with
\* issues, one without and one that does not parse for one path, a text
\* with issues and one without for another
CollectionDocuments ==
    {ValidInterface, BadName, TwoTemps, TruncatedText, EmptyCapabilityModel, BadId}

MaxUpdates == 3

\* update without line 680: the array is not emptied after the call of set
updatedUnemptied(c, doc, result) ==
    /\ cache' = result.st.cache
    /\ languageCodes' = result.st.LANGUAGE_CODES
    /\ thrown' = result.err
    /\ contextsUsed' = contextsUsed \cup {c}
    /\ context' = c
    /\ document' = doc
    /\ issues' = IF result.err THEN <<>> ELSE result.ret
    /\ IF result.err
       THEN UNCHANGED <<diagnosticCollection, diagnostics, lastUpdate>>
       ELSE /\ diagnosticCollection'
                   = setOf(diagnosticCollection, doc.fsPath,
                           pushed(diagnostics, doc, result.ret))
            /\ diagnostics' = pushed(diagnostics, doc, result.ret)
            /\ lastUpdate' = setOf(lastUpdate, doc.fsPath,
                                   [document |-> doc, issues |-> result.ret])

\* update (lines 663-681), getIssues having ended as `result`: if it has
\* thrown, update throws before it has touched the diagnostics
updated(c, doc, result) ==
    /\ cache' = result.st.cache
    /\ languageCodes' = result.st.LANGUAGE_CODES
    /\ thrown' = result.err
    /\ contextsUsed' = contextsUsed \cup {c}
    /\ context' = c
    /\ document' = doc
    /\ issues' = IF result.err THEN <<>> ELSE result.ret
    /\ IF result.err
       THEN UNCHANGED <<diagnosticCollection, diagnostics, lastUpdate>>
       ELSE /\ diagnosticCollection'
                   = setOf(diagnosticCollection, doc.fsPath,
                           pushed(diagnostics, doc, result.ret))
            /\ diagnostics' = <<>>
            /\ lastUpdate' = setOf(lastUpdate, doc.fsPath,
                                   [document |-> doc, issues |-> result.ret])

Update ==
    /\ calls < MaxUpdates
    /\ calls' = calls + 1
    /\ UNCHANGED <<graph, besidesDigitalTwinDiagnostic>>
    /\ \E c \in 1..Len(Contexts), doc \in CollectionDocuments :
           updated(c, doc, getIssues(This, Contexts[c], doc))

\* delete (lines 683-685)
Delete ==
    /\ calls < MaxUpdates
    /\ calls' = calls + 1
    /\ \E doc \in CollectionDocuments :
           /\ diagnosticCollection' = deleteOf(diagnosticCollection, doc.fsPath)
           /\ lastUpdate' = deleteOf(lastUpdate, doc.fsPath)
           /\ document' = doc
    /\ thrown' = FALSE
    /\ issues' = <<>>
    /\ UNCHANGED <<graph, cache, languageCodes, contextsUsed, context, diagnostics,
                   besidesDigitalTwinDiagnostic>>

NextCollection == Update \/ Delete

SpecCollection == InitDiagnostic /\ [][NextCollection]_vars

\* The diagnostics kept for a document are those built from the issues of
\* the last update of the document that returned, one diagnostic for each
\* issue and in their order; none are kept for a document that has not been
\* updated since it was deleted; nothing is left in _diagnostics
keptFromLastUpdate ==
    /\ DOMAIN diagnosticCollection = DOMAIN lastUpdate
    /\ \A uri \in DOMAIN lastUpdate :
           /\ Len(diagnosticCollection[uri]) = Len(lastUpdate[uri].issues)
           /\ \A k \in 1..Len(lastUpdate[uri].issues) :
                  diagnosticCollection[uri][k]
                      = Diagnostic(lastUpdate[uri].document, lastUpdate[uri].issues[k])
    /\ diagnostics = <<>>

\* A step leaves the diagnostics kept for every document other than the
\* one it is called with as they are
othersUntouched ==
    \A uri \in DOMAIN diagnosticCollection \cup DOMAIN diagnosticCollection' :
        uri # document'.fsPath
            => /\ uri \in DOMAIN diagnosticCollection
               /\ uri \in DOMAIN diagnosticCollection'
               /\ diagnosticCollection'[uri] = diagnosticCollection[uri]

\* C24: after any calls of update and delete, the diagnostics kept for a
\* document are exactly those built from the issues of the last update of
\* the document that returned, and none after a delete, never with
\* diagnostics of an earlier call or of another document among them; and a
\* call of update or delete for one document leaves the diagnostics kept
\* for every other document as they are.
C24_LastWriteWins == []keptFromLastUpdate /\ [][othersUntouched]_vars

\* C24 witness: after three calls, the last an update of a text without
\* issues, no diagnostics are kept for the path of that text, while the
\* other path keeps the diagnostics of its update.
C24_Witness ==
    /\ calls = 3
    /\ ~thrown
    /\ document = ValidInterface
    /\ issues = <<>>
    /\ DOMAIN diagnosticCollection = {ValidInterface.fsPath, BadId.fsPath}
    /\ diagnosticCollection[ValidInterface.fsPath] = <<>>
    /\ lastUpdate[BadId.fsPath].document = BadId
    /\ Len(diagnosticCollection[BadId.fsPath]) >= 2

\* ---------------------------------------------------------------------
\* ScaffoldGenerator: the files of an IoT project
\* ---------------------------------------------------------------------

\* The names of the files (FileNames of constants)
FileNames ==
    [iotworkbenchprojectFileName |-> ".iotworkbenchproject",
     cppPropertiesFileName |-> "c_cpp_properties.json",
     dockerfileName |-> "Dockerfile",
     devcontainerJsonFileName |-> "devcontainer.json"]

\* path.join of a folder and a name; a path is the sequence of its names
pathJoin(folder, name) == Append(folder, name)

\* The arguments of scaffoldIoTProjectdFiles
projectFolder == <<"project">>

vscodeFolderPath == pathJoin(projectFolder, ".vscode")

devcontainerFolderPath == pathJoin(projectFolder, ".devcontainer")

boardFolderPath == <<"boards">>

boardId == "devkit"

\* What a folder holds, and what a file holds that no call has written
Folder == "folder"

Earlier == "earlier"

\* What readFileSync(p).toString() gives for a file of the board
contentOf(p) == p[Len(p)]

FolderPaths == {projectFolder, vscodeFolderPath, devcontainerFolderPath}

FilePaths ==
    {pathJoin(projectFolder, FileNames.iotworkbenchprojectFileName),
     pathJoin(vscodeFolderPath, FileNames.cppPropertiesFileName),
     pathJoin(devcontainerFolderPath, FileNames.dockerfileName),
     pathJoin(devcontainerFolderPath, FileNames.devcontainerJsonFileName)}

\* The folder a path is in
dirname(p) == SubSeq(p, 1, Len(p) - 1)

\* FileUtility.exists
exists(fs, p) == p \in DOMAIN fs

\* FileUtility.mkdirRecursively: the folder, and the folders it is in
mkdirRecursively(fs, folder) ==
    [p \in DOMAIN fs \cup {SubSeq(folder, 1, k) : k \in 1..Len(folder)} |->
        IF p \in DOMAIN fs THEN fs[p] ELSE Folder]

\* FileUtility.writeFile: the file holds the content, whatever it held
writeFile(fs, p, content) ==
    [q \in DOMAIN fs \cup {p} |-> IF q = p THEN content ELSE fs[q]]

\* The steps that can fail for a reason outside the program: a folder that
\* cannot be made, a file of the board that cannot be read, a file that
\* cannot be written
Failures ==
    {"mkdir", "readCppProperties", "readDockerfile", "readDevcontainerJson",
     "writeIotworkbenchproject", "writeCppProperties", "writeDockerfile",
     "writeDevcontainerJson"}

\* The file systems a call can start with: a folder is in a folder that
\* exists, a file in a folder that exists
FileSystems ==
    {fs \in UNION {[paths -> {Folder, Earlier}] :
                       paths \in SUBSET (FolderPaths \cup FilePaths)} :
        \A p \in DOMAIN fs :
            /\ fs[p] = (IF p \in FolderPaths THEN Folder ELSE Earlier)
            /\ p # projectFolder => dirname(p) \in DOMAIN fs}

\* A function that ends as `ret` ("true", or "Error" when it throws) and
\* leaves the file system fs
Ended(fs, ret) == [fs |-> fs, ret |-> ret]

\* generateCommonFiles (lines 43-79), from the folder .devcontainer on
generateCommonFilesDevcontainer(fs, failing) ==
    IF exists(fs, devcontainerFolderPath) THEN Ended(fs, "true")
    ELSE IF "mkdir" \in failing THEN Ended(fs, "Error")
    ELSE Ended(mkdirRecursively(fs, devcontainerFolderPath), "true")

\* generateCommonFiles, from the folder .vscode on
generateCommonFilesVscode(fs, failing) ==
    IF exists(fs, vscodeFolderPath) THEN generateCommonFilesDevcontainer(fs, failing)
    ELSE IF "mkdir" \in failing THEN Ended(fs, "Error")
    ELSE generateCommonFilesDevcontainer(mkdirRecursively(fs, vscodeFolderPath), failing)

generateCommonFiles(fs, failing) ==
    IF ~exists(fs, projectFolder) THEN Ended(fs, "Error")
    ELSE IF "writeIotworkbenchproject" \in failing THEN Ended(fs, "Error")
    ELSE generateCommonFilesVscode(
             writeFile(fs, pathJoin(projectFolder, FileNames.iotworkbenchprojectFileName), " "),
             failing)

\* generateCppPropertiesFile (lines 84-107)
generateCppPropertiesFile(fs, failing) ==
    LET cppPropertiesFilePath == pathJoin(vscodeFolderPath, FileNames.cppPropertiesFileName)
        propertiesSourceFile == pathJoin(pathJoin(boardFolderPath, boardId), FileNames.cppPropertiesFileName)
    IN  IF exists(fs, cppPropertiesFilePath) THEN Ended(fs, "true")
        ELSE IF "readCppProperties" \in failing THEN Ended(fs, "Error")
        ELSE IF ~exists(fs, vscodeFolderPath) /\ "mkdir" \in failing THEN Ended(fs, "Error")
        ELSE IF "writeCppProperties" \in failing
                THEN Ended(mkdirRecursively(fs, vscodeFolderPath), "Error")
        ELSE Ended(writeFile(mkdirRecursively(fs, vscodeFolderPath), cppPropertiesFilePath,
                             contentOf(propertiesSourceFile)), "true")

\* generateDockerRelatedFiles (lines 112-152), from devcontainer.json on
generateDevcontainerJson(fs, failing) ==
    LET devcontainerJsonFileTargetPath == pathJoin(devcontainerFolderPath, FileNames.devcontainerJsonFileName)
        devcontainerJsonFileSourcePath == pathJoin(pathJoin(boardFolderPath, boardId), FileNames.devcontainerJsonFileName)
    IN  IF exists(fs, devcontainerJsonFileTargetPath) THEN Ended(fs, "true")
        ELSE IF "readDevcontainerJson" \in failing \/ "writeDevcontainerJson" \in failing
                THEN Ended(fs, "Error")
        ELSE Ended(writeFile(fs, devcontainerJsonFileTargetPath,
                             contentOf(devcontainerJsonFileSourcePath)), "true")

\* generateDockerRelatedFiles, from the Dockerfile on
generateDockerfile(fs, failing) ==
    LET dockerfileTargetPath == pathJoin(devcontainerFolderPath, FileNames.dockerfileName)
        dockerfileSourcePath == pathJoin(pathJoin(boardFolderPath, boardId), FileNames.dockerfileName)
    IN  IF exists(fs, dockerfileTargetPath) THEN Ended(fs, "true")
        ELSE IF "readDockerfile" \in failing \/ "writeDockerfile" \in failing
                THEN Ended(fs, "Error")
        ELSE generateDevcontainerJson(
                 writeFile(fs, dockerfileTargetPath, contentOf(dockerfileSourcePath)), failing)

generateDockerRelatedFiles(fs, failing) ==
    IF exists(fs, devcontainerFolderPath) THEN generateDockerfile(fs, failing)
    ELSE IF "mkdir" \in failing THEN Ended(fs, "Error")
    ELSE generateDockerfile(mkdirRecursively(fs, devcontainerFolderPath), failing)

\* The calls of scaffoldIoTProjectdFiles that are followed
MaxScaffolds == 2

\* A step of scaffoldIoTProjectdFiles (lines 154-162): the function it
\* awaits ends, and the next one is awaited, or the promise is rejected
Awaited(ended, next) ==
    /\ fileSystem' = ended.fs
    /\ scaffold' = (IF ended.ret = "true" THEN next ELSE "rejected")

GenerateCommonFiles ==
    /\ scaffold \in {"idle", "resolved", "rejected"}
    /\ scaffolds < MaxScaffolds
    /\ scaffolds' = scaffolds + 1
    /\ \E failing \in SUBSET Failures :
           Awaited(generateCommonFiles(fileSystem, failing), "generateCppPropertiesFile")
    /\ UNCHANGED besidesScaffoldGenerator

GenerateCppPropertiesFile ==
    /\ scaffold = "generateCppPropertiesFile"
    /\ \E failing \in SUBSET Failures :
           Awaited(generateCppPropertiesFile(fileSystem, failing), "generateDockerRelatedFiles")
    /\ UNCHANGED <<scaffolds, besidesScaffoldGenerator>>

GenerateDockerRelatedFiles ==
    /\ scaffold = "generateDockerRelatedFiles"
    /\ \E failing \in SUBSET Failures :
           Awaited(generateDockerRelatedFiles(fileSystem, failing), "resolved")
    /\ UNCHANGED <<scaffolds, besidesScaffoldGenerator>>

InitScaffold ==
    /\ fileSystem \in FileSystems
    /\ scaffold = "idle"
    /\ scaffolds = 0
    /\ InitBesidesScaffoldGenerator

NextScaffold ==
    \/ GenerateCommonFiles
    \/ GenerateCppPropertiesFile
    \/ GenerateDockerRelatedFiles

SpecScaffold == InitScaffold /\ [][NextScaffold]_vars

\* The two files of the folder .devcontainer
dockerRelatedFiles ==
    {pathJoin(devcontainerFolderPath, FileNames.dockerfileName),
     pathJoin(devcontainerFolderPath, FileNames.devcontainerJsonFileName)}

\* generateDockerRelatedFiles returns true in this step
dockerRelatedFilesReturnsTrue ==
    scaffold = "generateDockerRelatedFiles" /\ scaffold' = "resolved"

\* C25: whenever generateDockerRelatedFiles returns true, the Dockerfile
\* and devcontainer.json both exist in the folder .devcontainer, whichever
\* of the two existed before the call, and a file that existed before the
\* call holds what it held.
C25_BothDockerFilesExist ==
    [][dockerRelatedFilesReturnsTrue
          => /\ \A p \in dockerRelatedFiles : exists(fileSystem', p)
             /\ \A p \in DOMAIN fileSystem : fileSystem'[p] = fileSystem[p]]_vars

\* C25, the second half alone: a call of generateDockerRelatedFiles that
\* returns true leaves every file that existed as it was
C25_NothingOverwritten ==
    [][dockerRelatedFilesReturnsTrue
          => \A p \in DOMAIN fileSystem :
                 exists(fileSystem', p) /\ fileSystem'[p] = fileSystem[p]]_vars

\* C25 witness: scaffoldIoTProjectdFiles has resolved, the Dockerfile that
\* existed holds what it held, and there is no devcontainer.json
C25_Witness ==
    /\ scaffold = "resolved"
    /\ exists(fileSystem, pathJoin(devcontainerFolderPath, FileNames.dockerfileName))
    /\ fileSystem[pathJoin(devcontainerFolderPath, FileNames.dockerfileName)] = Earlier
    /\ ~exists(fileSystem, pathJoin(devcontainerFolderPath, FileNames.devcontainerJsonFileName))

\* ---------------------------------------------------------------------
\* AZ3166Device: the device settings sent over the serial port
\* ---------------------------------------------------------------------

\* The values of configValue: one that fits the first chunk with its
\* command, a connection string that does not
ConfigValues == {<<72, 111, 115, 116, 78, 97, 109, 101, 61, 104>> (* 'HostName=h' *), <<72, 111, 115, 116, 78, 97, 109, 101, 61, 119, 111, 114, 107, 98, 101, 110, 99, 104, 45, 104, 117, 98, 46, 97, 122, 117, 114, 101, 45, 100, 101, 118, 105, 99, 101, 115, 46, 110, 101, 116, 59, 68, 101, 118, 105, 99, 101, 73, 100, 61, 100, 101, 118, 107, 105, 116, 59, 83, 104, 97, 114, 101, 100, 65, 99, 99, 101, 115, 115, 75, 101, 121, 61, 113, 48, 90, 120, 51, 109, 78, 55, 112, 76, 50, 118, 84, 57, 115, 75, 52, 98, 82, 56, 119, 89, 49, 99, 72, 54, 100, 74, 53, 103, 70, 48, 97, 69, 51, 117, 73, 55, 111, 80, 50, 108, 77, 61>> (* 'HostName=workbench-hub.azure-devices.net;DeviceId=devkit;SharedAccessKey=q0Zx3mN7pL2vT9sK4bR8wY1cH6dJ5gF0aE3uI7oP2lM=' *)}

\* configDeviceOptions
configDeviceOptions == [ConnectionString |-> 0, UDS |-> 1]

\* command (lines 389-393, 482-486)
commandOf(option) == IF option = configDeviceOptions.ConnectionString THEN <<115, 101, 116, 95, 97, 122, 95, 105, 111, 116, 104, 117, 98>> (* 'set_az_iothub' *) ELSE <<115, 101, 116, 95, 100, 112, 115, 95, 117, 100, 115>> (* 'set_dps_uds' *)

\* `${command} "${configValue}"\r\n` (lines 428, 524)
dataOf(command, configValue) == command \o <<32, 34>> \o configValue \o <<34, 13, 10>>

\* '\r\nhelp\r\n' (lines 546, 596)
Help == <<13, 10, 104, 101, 108, 112, 13, 10>>

\* String.prototype.slice with one and with two arguments, for indices
\* that are not negative
sliceFrom(s, start) == SubSeq(s, start + 1, Len(s))

slice(s, start, end) == SubSeq(s, start + 1, IF end < Len(s) THEN end ELSE Len(s))

\* The serial ports serialport.list can call back with: none, one of
\* another vendor, the board, the board without a comName, two boards
ComLists ==
    {<<>>,
     <<[vendorId |-> "0x2341", productId |-> "0x0043", comName |-> "COM1"]>>,
     <<[vendorId |-> "0x2341", productId |-> "0x0043", comName |-> "COM1"],
       [vendorId |-> "0x0483", productId |-> "0x374B", comName |-> "COM3"]>>,
     <<[vendorId |-> "0x0483", productId |-> "0x374B", comName |-> ""]>>,
     <<[vendorId |-> "0x0483", productId |-> "0x374B", comName |-> "COM4"],
       [vendorId |-> "0x0483", productId |-> "0x374B", comName |-> "COM3"]>>}

\* The filter of chooseCOM (lines 633-642); the ids of the board are those
\* of the list with their case and without their prefix
isAZ3166(com) == com.vendorId = "0x0483" /\ com.productId = "0x374B"

\* chooseCOM (lines 620-661): how its promise ends, "pending" where it is
\* never settled; listFails: serialport.list calls back with an error, so
\* that the promise of getComList is rejected inside the async executor
chooseCOM(listFails, board, comList) ==
    LET list == SelectSeq(comList, isAZ3166)
    IN  IF listFails THEN [state |-> "pending", value |-> "", reason |-> "listFails"]
        ELSE IF ~board THEN [state |-> "rejected", value |-> "", reason |-> "AZ3166 is not found in the board list."]
        ELSE IF list # <<>>
                THEN IF list[1].comName = ""
                     THEN [state |-> "rejected", value |-> "", reason |-> "No avalible COM port."]
                     ELSE [state |-> "resolved", value |-> list[1].comName, reason |-> ""]
        ELSE [state |-> "rejected", value |-> "", reason |-> "No AZ3166 board connected."]

\* resolve and reject of a promise: the first of them settles it
settle(p, outcome) == IF p = "pending" THEN outcome ELSE p

\* The call as it stands
Flushing == [flush |-> flush, port |-> port, promise |-> promise]

Becomes(s) ==
    /\ flush' = s.flush
    /\ port' = s.port
    /\ promise' = s.promise

\* port.close()
closed(s) == [s EXCEPT !.port.state = IF s.port.constructed THEN "closed" ELSE @]

\* rejectIfError (lines 412-424, 508-520)
rejectIfError(s, err) ==
    IF s.flush.errorRejected THEN s
    ELSE IF err
    THEN closed([s EXCEPT !.flush.errorRejected = TRUE, !.promise = settle(@, "rejected")])
    ELSE s

\* Whether port.write(chunk, callback) calls back with an error: the port
\* is not open, or the write fails
writeFails(s, fails) == fails \/ s.port.state # "open"

\* port.write(chunk, ...) and, without an error, port.drain
written(s, chunk, fails) ==
    [s EXCEPT !.port.attempted = Append(@, chunk),
              !.port.written = IF writeFails(s, fails) THEN @ ELSE Append(@, chunk)]

\* executeSetAzIoTHub (lines 426-444, 522-540) from the catch clause on
executedIgnoringErrors(s) ==
    [s EXCEPT !.flush.send = "done",
              !.promise = IF s.flush.errorRejected THEN @ ELSE settle(@, "resolved")]

\* executeSetAzIoTHub: sendDataViaSerialPort (lines 664-681) of a chunk,
\* then what follows it
sent(s, chunk, fails, next) ==
    IF writeFails(s, fails)
    THEN executedIgnoringErrors(written(s, chunk, fails))
    ELSE [written(s, chunk, fails) EXCEPT !.flush.send = next]

\* The executor of the promise after chooseCOM (lines 386-410 and 446-464
\* of flushDeviceConfigUnix, 482-506 and 543-601 of flushDeviceConfig);
\* throws: the constructor of the serial port throws
constructed(s, comPort, throws) ==
    IF ~s.flush.board
    THEN [s EXCEPT !.promise = settle(@, "rejected"), !.flush.pc = "returned"]
    ELSE IF throws
    THEN [s EXCEPT !.flush.pc = "returned"]
    ELSE [s EXCEPT !.flush.pc = "listening",
                   !.flush.timer = IF s.flush.plat = "win32" THEN "set" ELSE @,
                   !.port = [constructed |-> TRUE, path |-> comPort, state |-> "opening",
                             handlers |-> IF s.flush.plat = "win32"
                                          THEN {"open", "data", "error"}
                                          ELSE {"open", "error"},
                             attempted |-> <<>>, written |-> <<>>]]

\* The executor from the end of chooseCOM on (lines 379-385, 475-481)
chose(s, com, throws) ==
    IF com.state = "pending" THEN s
    ELSE IF com.state = "rejected"
    THEN constructed([s EXCEPT !.promise = settle(@, "rejected")], "", throws)
    ELSE constructed(s, com.value, throws)

\* The 'data' events that are followed
MaxData == 2

\* flushDeviceConfigUnix (lines 374-385) up to chooseCOM
FlushDeviceConfigUnix ==
    /\ flush.pc = "idle"
    /\ \E configValue \in ConfigValues, option \in {0, 1}, board \in BOOLEAN :
           flush' = [flush EXCEPT !.plat = "unix", !.board = board, !.pc = "chooseCOM",
                                  !.data = dataOf(commandOf(option), configValue)]
    /\ promise' = "pending"
    /\ UNCHANGED <<port, chosen, besidesAZ3166Device>>

\* flushDeviceConfig (lines 467-481) up to chooseCOM
FlushDeviceConfig ==
    /\ flush.pc = "idle"
    /\ \E configValue \in ConfigValues, option \in {0, 1}, board \in BOOLEAN :
           flush' = [flush EXCEPT !.plat = "win32", !.board = board, !.pc = "chooseCOM",
                                  !.data = dataOf(commandOf(option), configValue)]
    /\ promise' = "pending"
    /\ UNCHANGED <<port, chosen, besidesAZ3166Device>>

\* chooseCOM ends, and the executor goes on; the constructor of the serial
\* port, which is no code of the program, may throw for the empty path
ChooseCOM ==
    /\ flush.pc = "chooseCOM"
    /\ chosen = "none"
    /\ \E listFails \in BOOLEAN, comList \in ComLists, throws \in BOOLEAN :
           LET com == chooseCOM(listFails, flush.board, comList)
           IN  /\ throws => com.state = "rejected"
               /\ chosen' = (IF com.state = "resolved" THEN com.value ELSE com.reason)
               /\ Becomes(chose(Flushing, com, throws))
    /\ UNCHANGED besidesAZ3166Device

\* The port opens, 'open' of flushDeviceConfigUnix (lines 447-455): the
\* message is answered and executeSetAzIoTHub is called
OnOpenUnix ==
    /\ flush.plat = "unix"
    /\ port.state = "opening"
    /\ port.path # ""
    /\ Becomes([Flushing EXCEPT !.port.state = "open", !.flush.send = "first"])
    /\ UNCHANGED <<chosen, besidesAZ3166Device>>

\* The port opens, 'open' of flushDeviceConfig (lines 544-549)
OnOpen ==
    /\ flush.plat = "win32"
    /\ port.state = "opening"
    /\ port.path # ""
    /\ \E fails \in BOOLEAN :
           LET s == [Flushing EXCEPT !.port.state = "open"]
           IN  Becomes(rejectIfError(written(s, Help, fails), writeFails(s, fails)))
    /\ UNCHANGED <<chosen, besidesAZ3166Device>>

\* 'data' of flushDeviceConfig (lines 552-577); set: the output includes
\* 'set_'
OnData ==
    /\ "data" \in port.handlers
    /\ port.state = "open"
    /\ flush.received < MaxData
    /\ \E set \in BOOLEAN :
           LET s == [Flushing EXCEPT !.flush.gotData = TRUE, !.flush.received = @ + 1]
           IN  Becomes(IF s.flush.commandExecuted THEN s
                       ELSE IF set
                       THEN [s EXCEPT !.flush.commandExecuted = TRUE,
                                      !.flush.configMode = TRUE,
                                      !.flush.send = "first"]
                       ELSE [s EXCEPT !.flush.configMode = FALSE])
    /\ UNCHANGED <<chosen, besidesAZ3166Device>>

\* 'error' (lines 458-463, 580-584): the port fails to open, or fails
\* later
OnError ==
    /\ "error" \in port.handlers
    /\ port.state \in {"opening", "open"}
    /\ Becomes(rejectIfError([Flushing EXCEPT !.port.state = "closed"], TRUE))
    /\ UNCHANGED <<chosen, besidesAZ3166Device>>

\* The timer (lines 586-591): ten seconds have passed
Timeout ==
    /\ flush.timer = "set"
    /\ flush' = [flush EXCEPT !.timer = IF ~flush.errorRejected /\ (~flush.gotData \/ ~flush.configMode)
                                        THEN "message" ELSE "done"]
    /\ UNCHANGED <<port, promise, chosen, besidesAZ3166Device>>

\* The message of the timer is answered (lines 592-599)
MessageAnswered ==
    /\ flush.timer = "message"
    /\ \E fails \in BOOLEAN :
           LET s == [Flushing EXCEPT !.flush.timer = "done"]
           IN  Becomes(rejectIfError(written(s, Help, fails), writeFails(s, fails)))
    /\ UNCHANGED <<chosen, besidesAZ3166Device>>

\* executeSetAzIoTHub: the first 120 characters (lines 429, 525)
SendFirst ==
    /\ flush.send = "first"
    /\ \E fails \in BOOLEAN :
           Becomes(sent(Flushing, slice(flush.data, 0, 120), fails,
                        IF Len(flush.data) > 120 THEN "rest" ELSE "close"))
    /\ UNCHANGED <<chosen, besidesAZ3166Device>>

\* executeSetAzIoTHub: a second later, the rest (lines 430-433, 526-529)
SendRest ==
    /\ flush.send = "rest"
    /\ \E fails \in BOOLEAN :
           Becomes(sent(Flushing, sliceFrom(flush.data, 120), fails, "close"))
    /\ UNCHANGED <<chosen, besidesAZ3166Device>>

\* executeSetAzIoTHub: a second later, port.close() and the end (lines
\* 435-443, 531-539)
Executed ==
    /\ flush.send = "close"
    /\ Becomes(executedIgnoringErrors(closed(Flushing)))
    /\ UNCHANGED <<chosen, besidesAZ3166Device>>

InitFlush ==
    /\ promise = "none"
    /\ flush = [plat |-> "none", board |-> FALSE, data |-> <<>>, pc |-> "idle",
                errorRejected |-> FALSE, commandExecuted |-> FALSE, gotData |-> FALSE,
                configMode |-> FALSE, send |-> "none", timer |-> "none", received |-> 0]
    /\ port = [constructed |-> FALSE, path |-> "", state |-> "none", handlers |-> {},
               attempted |-> <<>>, written |-> <<>>]
    /\ chosen = "none"
    /\ InitBesidesAZ3166Device

NextFlush ==
    \/ FlushDeviceConfigUnix
    \/ FlushDeviceConfig
    \/ ChooseCOM
    \/ OnOpenUnix
    \/ OnOpen
    \/ OnData
    \/ OnError
    \/ Timeout
    \/ MessageAnswered
    \/ SendFirst
    \/ SendRest
    \/ Executed

SpecFlush == InitFlush /\ [][NextFlush]_vars

\* The chunks written and drained hold the command string whole, as its
\* first 120 characters followed at once by the rest
commandWritten ==
    \E k \in 1..Len(port.written) :
        IF Len(flush.data) <= 120
        THEN port.written[k] = flush.data
        ELSE /\ k < Len(port.written)
             /\ Len(port.written[k]) = 120
             /\ port.written[k] \o port.written[k + 1] = flush.data

\* C27: the promise of flushDeviceConfig and of flushDeviceConfigUnix is
\* resolved with true only if the whole command string (the command, the
\* quoted value, CRLF) has been written and drained to the serial port, as
\* its first 120 characters followed by the rest; after a write that failed
\* it is not resolved with true.
C27_ResolvedOnlyIfCommandWritten ==
    promise = "resolved"
        => /\ commandWritten
           /\ \A k \in 1..Len(port.attempted) :
                  port.attempted[k] # Help => \E n \in 1..Len(port.written) :
                                                   port.written[n] = port.attempted[k]

\* C27 witness: flushDeviceConfigUnix has called port.write with the first
\* 120 characters of a longer command string, the write has failed, and the
\* promise is resolved with true with nothing written.
C27_Witness ==
    /\ promise = "resolved"
    /\ flush.plat = "unix"
    /\ Len(flush.data) > 120
    /\ port.attempted = <<slice(flush.data, 0, 120)>>
    /\ port.written = <<>>
    /\ ~flush.errorRejected

\* chooseCOM has failed for one of the two reasons of C28
chooseCOMFailed == chosen \in {"No AZ3166 board connected.", "listFails"}

\* C28: when chooseCOM fails, because no AZ3166 board is connected or
\* because the ports cannot be listed, the promise of flushDeviceConfig
\* and of flushDeviceConfigUnix is rejected, and no serial port is opened,
\* no handler and no timer is registered and port.write is never called.
C28_NothingAfterChooseCOMFails ==
    chooseCOMFailed
        => /\ promise = "rejected"
           /\ ~port.constructed
           /\ port.handlers = {}
           /\ flush.timer = "none"
           /\ port.attempted = <<>>

\* C28 witness: the ports cannot be listed, chooseCOM never ends, and the
\* promise of flushDeviceConfig is neither rejected nor resolved.
C28_Witness ==
    /\ chosen = "listFails"
    /\ flush.plat = "win32"
    /\ flush.pc = "chooseCOM"
    /\ promise = "pending"
    /\ ~ENABLED NextFlush

\* With a board connected nowhere, the executor goes on after it has
\* rejected the promise: where the constructor of the serial port does not
\* throw for the empty path, the handlers and the timer are registered and
\* the timer calls port.write.
writtenAfterChooseCOMFailed ==
    /\ chosen = "No AZ3166 board connected."
    /\ promise = "rejected"
    /\ port.constructed
    /\ port.path = ""
    /\ port.attempted = <<Help>>

\* ---------------------------------------------------------------------
\* StreamAnalyticsJob: deploy
\* ---------------------------------------------------------------------

\* The '.' that the progress intervals append, as far as they are followed
MaxDots == 3

\* The states of the job that getState returns
JobStates == {"Created", "Running", "Stopped", "Starting", "Stopping"}

\* The call of deploy as it stands
Deploying == [deploy |-> deploy, pending |-> pending, channel |-> channel, action |-> action]

DeployBecomes(s) ==
    /\ deploy' = s.deploy
    /\ pending' = s.pending
    /\ channel' = s.channel
    /\ action' = s.action

\* this.channel.appendLine, where this.channel is set
appendLine(s, line) == IF s.deploy.hasChannel THEN [s EXCEPT !.channel = Append(@, line)] ELSE s

\* setInterval of a progress timer, where this.channel is set
setInterval(s, timer) == IF s.deploy.hasChannel THEN [s EXCEPT !.pending[timer] = TRUE] ELSE s

\* if (this.channel && timer) { clearInterval(timer); appendLine('.'); }
clearInterval(s, timer) ==
    IF s.deploy.hasChannel /\ s.pending[timer]
    THEN appendLine([s EXCEPT !.pending[timer] = FALSE], ".")
    ELSE s

\* callAction (lines 115-121): the request is posted
callAction(s, of) == [s EXCEPT !.action = [of |-> of, state |-> "posting"]]

\* deploy ends: it returns true or false, or throws
ended(s, how) == [s EXCEPT !.deploy.pc = how, !.action = [of |-> "none", state |-> "none"]]

\* deploy from the end of start on (lines 484-497)
started(s, jobStarted) ==
    IF ~jobStarted
    THEN ended(appendLine(s, "Start Stream Analytics Job failed."), "false")
    ELSE ended(IF s.deploy.hasChannel /\ s.pending.startPending
               THEN appendLine(clearInterval(s, "startPending"),
                               "Start Stream Analytics Job succeeded.")
               ELSE s, "true")

\* deploy from the end of createOrUpdateById to the call of start (lines
\* 466-484)
deployed(s) ==
    callAction(
        setInterval(
            appendLine(
                IF s.deploy.hasChannel /\ s.pending.deployPending
                THEN appendLine(appendLine(clearInterval(s, "deployPending"), "deployment"),
                                "Stream Analytics Job query deploy succeeded.")
                ELSE s,
                "Starting Stream Analytics Job..."),
            "startPending"),
        "Start")

\* The catch clause of deploy (lines 498-504)
caught(s) == ended(clearInterval(s, "deployPending"), "thrown")

\* deploy from the end of stop to createOrUpdateById (lines 431-466)
stopped(s, jobStopped) ==
    IF ~jobStopped
    THEN ended(appendLine(s, "Stop Stream Analytics Job failed."), "false")
    ELSE LET cleared == IF s.deploy.hasChannel /\ s.pending.stopPending
                        THEN appendLine(clearInterval(s, "stopPending"),
                                        "Stop Stream Analytics Job succeeded.")
                        ELSE s
         IN  IF ~s.deploy.queryExists THEN ended(cleared, "thrown")
             ELSE [setInterval(appendLine(cleared, "Deploying Stream Analytics Job..."),
                               "deployPending")
                      EXCEPT !.deploy.pc = "createOrUpdateById",
                             !.action = [of |-> "none", state |-> "none"]]

\* deploy from the end of the callAction it awaits on; resolved: the value
\* callAction resolves with
acted(s, resolved) ==
    IF s.action.of = "Stop" THEN stopped(s, resolved) ELSE started(s, resolved)

\* deploy (lines 419-430) up to the call of stop
Deploy ==
    /\ deploy.pc = "idle"
    /\ \E hasChannel \in BOOLEAN, queryExists \in BOOLEAN :
           LET s == [Deploying EXCEPT !.deploy = [pc |-> "stop", hasChannel |-> hasChannel,
                                                  queryExists |-> queryExists]]
           IN  DeployBecomes(callAction(
                   setInterval(appendLine(s, "Stopping Stream Analytics Job..."), "stopPending"),
                   "Stop"))
    /\ UNCHANGED besidesStreamAnalyticsJob

\* callAction: AzureUtility.postRequest ends (line 121); failed: it
\* throws, and with it stop or start, outside or inside the try of deploy
PostRequest ==
    /\ action.state = "posting"
    /\ \E failed \in BOOLEAN :
           DeployBecomes(IF ~failed THEN [Deploying EXCEPT !.action.state = "polling"]
                         ELSE IF action.of = "Stop" THEN ended(Deploying, "thrown")
                         ELSE caught(Deploying))
    /\ UNCHANGED besidesStreamAnalyticsJob

\* callAction: the interval of five seconds (lines 129-138) finds the job
\* in the state awaited, and callAction resolves with true
Polled ==
    /\ action.state = "polling"
    /\ \E state \in JobStates :
           /\ \/ action.of = "Start" /\ state = "Running"
              \/ action.of = "Stop" /\ state = "Stopped"
              \/ action.of = "Stop" /\ state = "Created"
           /\ DeployBecomes(acted(Deploying, TRUE))
    /\ UNCHANGED besidesStreamAnalyticsJob

\* callAction: the timeout of ten minutes (lines 124-127) resolves with
\* false
TimedOut ==
    /\ action.state = "polling"
    /\ DeployBecomes(acted(Deploying, FALSE))
    /\ UNCHANGED besidesStreamAnalyticsJob

\* createOrUpdateById ends (lines 466-467); failed: it throws
CreateOrUpdateById ==
    /\ deploy.pc = "createOrUpdateById"
    /\ \E failed \in BOOLEAN :
           DeployBecomes(IF failed THEN caught(Deploying)
                         ELSE [deployed(Deploying) EXCEPT !.deploy.pc = "start"])
    /\ UNCHANGED besidesStreamAnalyticsJob

\* A progress interval that is set fires (lines 426-428, 462-464, 480-482):
\* this.channel.append('.'), kept apart from the lines with a '.' as "dot"
Progress ==
    /\ \E timer \in DOMAIN pending : pending[timer]
    /\ Len(SelectSeq(channel, LAMBDA line : line = "dot")) < MaxDots
    /\ channel' = Append(channel, "dot")
    /\ UNCHANGED <<deploy, pending, action, besidesStreamAnalyticsJob>>

InitDeploy ==
    /\ deploy = [pc |-> "idle", hasChannel |-> FALSE, queryExists |-> FALSE]
    /\ pending = [stopPending |-> FALSE, deployPending |-> FALSE, startPending |-> FALSE]
    /\ channel = <<>>
    /\ action = [of |-> "none", state |-> "none"]
    /\ InitBesidesStreamAnalyticsJob

NextDeploy ==
    \/ Deploy
    \/ PostRequest
    \/ Polled
    \/ TimedOut
    \/ CreateOrUpdateById
    \/ Progress

SpecDeploy == InitDeploy /\ [][NextDeploy]_vars

\* deploy has ended
deployEnded == deploy.pc \in {"true", "false", "thrown"}

\* C29: when deploy has ended, with true, with false because the job did
\* not stop or did not start, or with an exception, each of the three
\* progress intervals it set has been cleared, and nothing is appended to
\* the channel any more.
C29_ProgressTimersCleared ==
    [](deployEnded => \A timer \in DOMAIN pending : ~pending[timer])
        /\ [][deployEnded => channel' = channel]_vars

\* C29 witness: deploy has returned false because the job did not stop in
\* ten minutes, the interval stopPending is still set, and a '.' has been
\* appended to the channel after the line that reports the failure.
C29_Witness ==
    /\ deploy.pc = "false"
    /\ pending.stopPending
    /\ Len(channel) >= 3
    /\ channel[Len(channel) - 1] = "Stop Stream Analytics Job failed."
    /\ channel[Len(channel)] = "dot"

\* ---------------------------------------------------------------------
\* ProjectInitializer: the folder of a new project
\* ---------------------------------------------------------------------

\* constants.defaultProjectName (line 27)
defaultProjectName == <<73, 111, 84, 112, 114, 111, 106, 101, 99, 116>> (* 'IoTproject' *)

\* The names of the files and directories the folder of projects can hold
EntryNames == {<<73, 111, 84, 112, 114, 111, 106, 101, 99, 116>> (* 'IoTproject' *), <<73, 111, 84, 112, 114, 111, 106, 101, 99, 116, 95, 49>> (* 'IoTproject_1' *), <<73, 111, 84, 112, 114, 111, 106, 101, 99, 116, 95, 50>> (* 'IoTproject_2' *), <<109, 121, 45, 112, 114, 111, 106, 101, 99, 116>> (* 'my-project' *)}

\* The names the user can enter
InputNames == EntryNames \cup {<<73, 111, 84, 112, 114, 111, 106, 101, 99, 116, 95, 51>> (* 'IoTproject_3' *), <<115, 107, 101, 116, 99, 104, 46, 105, 110, 111>> (* 'sketch.ino' *), <<45, 112, 114, 111, 106, 101, 99, 116>> (* '-project' *), <<109, 121, 32, 112, 114, 111, 106, 101, 99, 116>> (* 'my project' *), <<120>> (* 'x' *), <<>> (* '' *)}

\* The folders of projects a call can start with
ProjectFolders ==
    {[exists |-> FALSE, entries |-> <<>>]}
        \cup {[exists |-> TRUE, entries |-> entries] :
                 entries \in UNION {[names -> {"file", "directory"}] : names \in SUBSET EntryNames}}

\* The decimal digits of a number that is not negative, as a template
\* literal writes it
RECURSIVE numberToString(_)

numberToString(n) == IF n < 10 THEN <<48 + n>> ELSE numberToString(n \div 10) \o <<48 + (n % 10)>>

\* FileUtility.fileExists and FileUtility.directoryExists, of the path of a
\* name in the folder of projects
fileExists(folder, name) == name \in DOMAIN folder.entries /\ folder.entries[name] = "file"

directoryExists(folder, name) == name \in DOMAIN folder.entries /\ folder.entries[name] = "directory"

\* The value of a call of an async function that is not awaited, and a
\* value of type boolean
Promise(value) == [type |-> "Promise", value |-> value]

Boolean(value) == [type |-> "boolean", value |-> value]

\* The test of a value in a condition: an object is true
truthy(value) == value.type = "Promise" \/ value.value

\* IsProjectPathValid (lines 283-290), an async function
IsProjectPathValid(folder, name) == Promise(~fileExists(folder, name) /\ ~directoryExists(folder, name))

RECURSIVE candidateNameFrom(_, _)

\* The loop of GenerateProjectFolder (lines 240-252), from a value of
\* counter on
candidateNameFrom(folder, counter) ==
    LET candidateName == IF counter = 0 THEN defaultProjectName
                         ELSE defaultProjectName \o <<95>> \o numberToString(counter)
        isValid == IsProjectPathValid(folder, candidateName)
    IN  IF truthy(isValid) THEN candidateName ELSE candidateNameFrom(folder, counter + 1)

\* [a-z0-9_] without regard to case
isNameCharacter(u) == u \in (48..57) \cup (65..90) \cup (97..122) \cup {95}

\* ([a-z0-9_]|[a-z0-9_][-a-z0-9_.]*[a-z0-9_])
isProjectNameCore(s) ==
    /\ Len(s) >= 1
    /\ isNameCharacter(s[1])
    /\ isNameCharacter(s[Len(s)])
    /\ \A i \in 1..Len(s) : isNameCharacter(s[i]) \/ s[i] \in {45, 46}

\* /^([a-z0-9_]|[a-z0-9_][-a-z0-9_.]*[a-z0-9_])(\.ino)?$/i.test (line 258)
isProjectName(s) ==
    \/ isProjectNameCore(s)
    \/ /\ Len(s) > 4
       /\ SubSeq(s, Len(s) - 3, Len(s)) \in {<<46, i, n, o>> : i \in {73, 105}, n \in {78, 110}, o \in {79, 111}}
       /\ isProjectNameCore(SubSeq(s, 1, Len(s) - 4))

\* validateInput (lines 257-271): "" where it returns undefined
validateInput(folder, projectName) ==
    IF ~isProjectName(projectName) THEN "Project name can only contain letters, numbers, - and ."
    ELSE IF truthy(IsProjectPathValid(folder, projectName)) THEN ""
    ELSE "exists, please choose another name."

\* GenerateProjectFolder (lines 228-252) up to the input box
GenerateProjectFolder ==
    /\ initializer.pc = "idle"
    /\ projects' = [projects EXCEPT !.exists = TRUE]
    /\ initializer' = [initializer EXCEPT !.pc = "showInputBox",
                                          !.candidateName = candidateNameFrom(projects, 0)]
    /\ UNCHANGED besidesProjectInitializer

\* The input box returns (lines 254-280): the user has entered a name that
\* validateInput lets pass, the one proposed or another, or has cancelled
ShowInputBox ==
    /\ initializer.pc = "showInputBox"
    /\ \E projectName \in InputNames \cup {initializer.candidateName, Undefined} :
           /\ projectName # Undefined => validateInput(projects, projectName) = ""
           /\ initializer' = [initializer EXCEPT !.pc = "returned", !.projectName = projectName]
    /\ UNCHANGED <<projects, besidesProjectInitializer>>

InitProject ==
    /\ projects \in ProjectFolders
    /\ initializer = [pc |-> "idle", candidateName |-> <<>>, projectName |-> <<>>]
    /\ InitBesidesProjectInitializer

NextProject ==
    \/ GenerateProjectFolder
    \/ ShowInputBox

SpecProject == InitProject /\ [][NextProject]_vars

\* The name of place k of the sequence IoTproject, IoTproject_1, ...
sequenceName(k) == IF k = 0 THEN <<73, 111, 84, 112, 114, 111, 106, 101, 99, 116>> (* 'IoTproject' *) ELSE <<73, 111, 84, 112, 114, 111, 106, 101, 99, 116, 95>> (* 'IoTproject_' *) \o numberToString(k)

\* The first place of the sequence with a name that is the name of no
\* file and of no directory of the folder of projects
firstFree ==
    CHOOSE k \in 0..Cardinality(EntryNames) :
        /\ sequenceName(k) \notin DOMAIN projects.entries
        /\ \A j \in 0..(k - 1) : sequenceName(j) \in DOMAIN projects.entries

\* C30: the name GenerateProjectFolder proposes is the first of IoTproject,
\* IoTproject_1, IoTproject_2, ... that is the name of no file and of no
\* directory of the folder of projects, and the path it returns, of the
\* name that passed validateInput, is the path of no file and of no
\* directory.
C30_ProjectPathIsNew ==
    /\ initializer.pc \in {"showInputBox", "returned"}
           => initializer.candidateName = sequenceName(firstFree)
    /\ (initializer.pc = "returned" /\ initializer.projectName # Undefined)
           => initializer.projectName \notin DOMAIN projects.entries

\* C30 witness: with a directory IoTproject and a file IoTproject_1 in the
\* folder of projects, GenerateProjectFolder has proposed IoTproject and
\* returned the path of IoTproject_1, the name the user entered.
C30_Witness ==
    /\ initializer.pc = "returned"
    /\ DOMAIN projects.entries = {<<73, 111, 84, 112, 114, 111, 106, 101, 99, 116>> (* 'IoTproject' *), <<73, 111, 84, 112, 114, 111, 106, 101, 99, 116, 95, 49>> (* 'IoTproject_1' *)}
    /\ projects.entries[<<73, 111, 84, 112, 114, 111, 106, 101, 99, 116>> (* 'IoTproject' *)] = "directory"
    /\ projects.entries[<<73, 111, 84, 112, 114, 111, 106, 101, 99, 116, 95, 49>> (* 'IoTproject_1' *)] = "file"
    /\ initializer.candidateName = <<73, 111, 84, 112, 114, 111, 106, 101, 99, 116>> (* 'IoTproject' *)
    /\ initializer.projectName = <<73, 111, 84, 112, 114, 111, 106, 101, 99, 116, 95, 49>> (* 'IoTproject_1' *)

====
